---- MODULE Spec2Model ----
(***************************************************************************)
(* A model of the vless_automation pipeline: node merge (main.py,          *)
(* simple_main.py, utils/node_manager.py), the Clash YAML renderer         *)
(* (utils/yaml_generator.py), the main.py run against the GitHub contents  *)
(* API, and the retrying GitHubClient (utils/github_client.py).            *)
(*                                                                         *)
(* Text is modelled as a sequence of one-character strings, so that the    *)
(* regular expressions, splits and rewrites of the code act on characters. *)
(***************************************************************************)
EXTENDS Integers, Sequences, FiniteSets, TLC

----------------------------------------------------------------------------
(* Characters and text helpers *)

Digits == {"0", "1", "2", "3", "4", "5", "6", "7", "8", "9"}

\* the character class [\d\.] of the key pattern
DigitsAndDot == Digits \cup {"."}

\* the set of all sequences over S of length at most n
SeqsUpTo(S, n) == UNION {[1..k -> S] : k \in 0..n}

\* the indices of s in increasing order are 1..Len(s); the least element of a
\* non-empty set of naturals
Least(I) == CHOOSE i \in I : \A j \in I : i <= j

\* the last index of the maximal run of characters of the set Class that starts at
\* index i of s (i - 1 when s[i] is not of the class): a greedy + or *
RunEnd(s, i, Class) ==
  CHOOSE j \in (i - 1)..Len(s) :
    /\ \A k \in i..j : s[k] \in Class
    /\ (j = Len(s) \/ s[j + 1] \notin Class)

\* s.startswith(p)
StartsWith(s, p) == Len(s) >= Len(p) /\ SubSeq(s, 1, Len(p)) = p

\* p in s, for texts
Contains(s, p) ==
  \E i \in 1..(Len(s) - Len(p) + 1) : SubSeq(s, i, i + Len(p) - 1) = p

\* c in s, for one character
HasChar(s, c) == \E i \in 1..Len(s) : s[i] = c

\* the index of the first (last) occurrence of character c in s, 0 if none
IndexOf(s, c) ==
  IF HasChar(s, c) THEN Least({i \in 1..Len(s) : s[i] = c}) ELSE 0

LastIndexOf(s, c) ==
  IF HasChar(s, c)
    THEN CHOOSE i \in 1..Len(s) : s[i] = c /\ \A j \in (i + 1)..Len(s) : s[j] # c
    ELSE 0

\* the text before and after index i
Before(s, i) == SubSeq(s, 1, i - 1)
After(s, i) == SubSeq(s, i + 1, Len(s))

\* the characters of str.isspace(): what str.strip() strips and \s matches
Whitespace ==
  { " ", "\t", "\n", "\r", "U+000B", "U+000C", "U+001C", "U+001D", "U+001E",
    "U+001F", "U+0085", "U+00A0", "U+1680", "U+2000", "U+2001", "U+2002",
    "U+2003", "U+2004", "U+2005", "U+2006", "U+2007", "U+2008", "U+2009",
    "U+200A", "U+2028", "U+2029", "U+202F", "U+205F", "U+3000" }

\* len(s) - len(s.lstrip())
LeadingSpaces(s) == RunEnd(s, 1, Whitespace)

LStrip(s) == SubSeq(s, LeadingSpaces(s) + 1, Len(s))

RStrip(s) ==
  LET keep == {i \in 1..Len(s) : s[i] \notin Whitespace}
  IN IF keep = {} THEN <<>>
     ELSE SubSeq(s, 1, CHOOSE i \in keep : \A j \in keep : j <= i)

Strip(s) == LStrip(RStrip(s))

\* s.split(c): the texts between the occurrences of c
RECURSIVE Split(_, _)
Split(s, c) ==
  IF ~HasChar(s, c) THEN <<s>>
  ELSE <<Before(s, IndexOf(s, c))>> \o Split(After(s, IndexOf(s, c)), c)

\* the characters of s that are not in the set Drop, in order
RECURSIVE Without(_, _)
Without(s, Drop) ==
  IF s = <<>> THEN <<>>
  ELSE (IF Head(s) \in Drop THEN <<>> ELSE <<Head(s)>>) \o Without(Tail(s), Drop)

\* the concatenation of a sequence of sequences, by halves
RECURSIVE Flatten(_)
Flatten(ss) ==
  IF ss = <<>> THEN <<>>
  ELSE IF Len(ss) = 1 THEN ss[1]
  ELSE LET half == Len(ss) \div 2
       IN Flatten(SubSeq(ss, 1, half)) \o Flatten(SubSeq(ss, half + 1, Len(ss)))

\* sep.join(texts) for a separator of one character
RECURSIVE Join(_, _)
Join(texts, sep) ==
  IF texts = <<>> THEN <<>>
  ELSE IF Len(texts) = 1 THEN texts[1]
  ELSE texts[1] \o <<sep>> \o Join(Tail(texts), sep)

\* n spaces
RECURSIVE Spaces(_)
Spaces(n) == IF n <= 0 THEN <<>> ELSE <<" ">> \o Spaces(n - 1)

DigitChars == <<"0", "1", "2", "3", "4", "5", "6", "7", "8", "9">>

DigitVal(c) == (CHOOSE d \in 1..10 : DigitChars[d] = c) - 1

\* the value of a non-empty text of decimal digits
RECURSIVE DigitsVal(_)
DigitsVal(t) ==
  IF t = <<>> THEN 0
  ELSE DigitsVal(SubSeq(t, 1, Len(t) - 1)) * 10 + DigitVal(t[Len(t)])

\* str(n) for an integer n
RECURSIVE NatText(_)
NatText(n) ==
  IF n < 10 THEN <<DigitChars[n + 1]>>
  ELSE NatText(n \div 10) \o <<DigitChars[(n % 10) + 1]>>

IntText(n) == IF n < 0 THEN <<"-">> \o NatText(0 - n) ELSE NatText(n)

----------------------------------------------------------------------------
(* Bytes: str.encode('utf-8'), bytes.decode('utf-8') and base64 *)

\* the characters of code 0..127, at index code + 1; a character that a
\* string of this notation cannot hold is written U+XXXX
AsciiChars ==
  << "U+0000", "U+0001", "U+0002", "U+0003", "U+0004", "U+0005", "U+0006", "U+0007",
     "U+0008", "\t", "\n", "U+000B", "U+000C", "\r", "U+000E", "U+000F",
     "U+0010", "U+0011", "U+0012", "U+0013", "U+0014", "U+0015", "U+0016", "U+0017",
     "U+0018", "U+0019", "U+001A", "U+001B", "U+001C", "U+001D", "U+001E", "U+001F",
     " ", "!", "\"", "#", "$", "%", "&", "'",
     "(", ")", "*", "+", ",", "-", ".", "/",
     "0", "1", "2", "3", "4", "5", "6", "7",
     "8", "9", ":", ";", "<", "=", ">", "?",
     "@", "A", "B", "C", "D", "E", "F", "G",
     "H", "I", "J", "K", "L", "M", "N", "O",
     "P", "Q", "R", "S", "T", "U", "V", "W",
     "X", "Y", "Z", "[", "\\", "]", "^", "_",
     "U+0060", "a", "b", "c", "d", "e", "f", "g",
     "h", "i", "j", "k", "l", "m", "n", "o",
     "p", "q", "r", "s", "t", "u", "v", "w",
     "x", "y", "z", "{", "|", "}", "~", "U+007F" >>

\* ord(c) of an ASCII character
ByteOfChar ==
  [c \in {AsciiChars[i] : i \in 1..128} |->
     (CHOOSE i \in 1..128 : AsciiChars[i] = c) - 1]

IsAscii(c) == c \in DOMAIN ByteOfChar

HexChars ==
  <<"0", "1", "2", "3", "4", "5", "6", "7", "8", "9", "A", "B", "C", "D", "E", "F">>

\* chr(cp)
CharOfCodePoint(cp) ==
  IF cp < 128 THEN AsciiChars[cp + 1]
  ELSE "U+" \o (IF cp >= 1048576 THEN HexChars[((cp \div 1048576) % 16) + 1] ELSE "")
            \o (IF cp >= 65536 THEN HexChars[((cp \div 65536) % 16) + 1] ELSE "")
            \o HexChars[((cp \div 4096) % 16) + 1] \o HexChars[((cp \div 256) % 16) + 1]
            \o HexChars[((cp \div 16) % 16) + 1] \o HexChars[(cp % 16) + 1]

\* the code points of the non-ASCII characters of the texts that the model
\* encodes: those of the label prefixes of config.py and node_manager.py
EncodableCodePoints == {39321, 28207, 33410, 28857, 33258, 36873}

\* ord(c) of such a character
CodePointOf ==
  [c \in {CharOfCodePoint(cp) : cp \in EncodableCodePoints} |->
     CHOOSE cp \in EncodableCodePoints : CharOfCodePoint(cp) = c]

\* chr(cp).encode('utf-8')
Utf8Bytes(cp) ==
  IF cp < 128 THEN <<cp>>
  ELSE IF cp < 2048 THEN <<192 + (cp \div 64), 128 + (cp % 64)>>
  ELSE IF cp < 65536
    THEN <<224 + (cp \div 4096), 128 + ((cp \div 64) % 64), 128 + (cp % 64)>>
    ELSE <<240 + (cp \div 262144), 128 + ((cp \div 4096) % 64),
           128 + ((cp \div 64) % 64), 128 + (cp % 64)>>

\* text.encode('utf-8')
RECURSIVE Utf8Encode(_)
Utf8Encode(text) ==
  LET wide == {i \in 1..Len(text) : ~IsAscii(text[i])}
  IN IF wide = {} THEN [i \in 1..Len(text) |-> ByteOfChar[text[i]]]
     ELSE LET k == Least(wide)
          IN [i \in 1..(k - 1) |-> ByteOfChar[text[i]]]
               \o Utf8Bytes(CodePointOf[text[k]])
               \o Utf8Encode(After(text, k))

\* the length of the UTF-8 sequence that byte b leads, 0 if it leads none
LeadLen(b) ==
  IF b < 128 THEN 1
  ELSE IF b >= 194 /\ b <= 223 THEN 2
  ELSE IF b >= 224 /\ b <= 239 THEN 3
  ELSE IF b >= 240 /\ b <= 244 THEN 4
  ELSE 0

\* whether byte c may be the k-th byte after lead byte b
ContOk(b, k, c) ==
  IF k > 1 THEN c \in 128..191
  ELSE IF b = 224 THEN c \in 160..191
  ELSE IF b = 237 THEN c \in 128..159
  ELSE IF b = 240 THEN c \in 144..191
  ELSE IF b = 244 THEN c \in 128..143
  ELSE c \in 128..191

\* how many of the bytes after index i continue the sequence that bytes[i]
\* leads, at most LeadLen - 1
ContRun(bytes, i) ==
  LET need == LeadLen(bytes[i]) - 1
  IN IF need <= 0 THEN 0
     ELSE CHOOSE k \in 0..need :
            /\ \A j \in 1..k :
                 i + j <= Len(bytes) /\ ContOk(bytes[i], j, bytes[i + j])
            /\ \/ k = need
               \/ i + k + 1 > Len(bytes)
               \/ ~ContOk(bytes[i], k + 1, bytes[i + k + 1])

\* the code point of the complete sequence at index i
SeqCodePoint(bytes, i) ==
  LET b == bytes[i]
      n == LeadLen(b)
  IN IF n = 1 THEN b
     ELSE IF n = 2 THEN ((b % 32) * 64) + (bytes[i + 1] % 64)
     ELSE IF n = 3
       THEN ((b % 16) * 4096) + ((bytes[i + 1] % 64) * 64) + (bytes[i + 2] % 64)
       ELSE ((b % 8) * 262144) + ((bytes[i + 1] % 64) * 4096)
              + ((bytes[i + 2] % 64) * 64) + (bytes[i + 3] % 64)

\* the result of a conversion that can raise
Raised == [ok |-> FALSE, value |-> <<>>]
Returned(v) == [ok |-> TRUE, value |-> v]

\* bytes.decode('utf-8'): every byte that is no continuation byte leads a
\* complete sequence, every continuation byte belongs to one
Utf8Decode(bytes) ==
  LET n == Len(bytes)
      IsCont(i) == bytes[i] \in 128..191
      Complete(i) == LeadLen(bytes[i]) >= 1 /\ ContRun(bytes, i) = LeadLen(bytes[i]) - 1
      Covered(i) == \E j \in (i - 3)..(i - 1) :
                      /\ j >= 1
                      /\ ~IsCont(j)
                      /\ i - j <= LeadLen(bytes[j]) - 1
                      /\ Complete(j)
      IsStart(i) == ~IsCont(i)
      starts == SelectSeq([i \in 1..n |-> i], IsStart)
  IN IF \A i \in 1..n : IF IsCont(i) THEN Covered(i) ELSE Complete(i)
       THEN Returned([k \in 1..Len(starts) |->
                        CharOfCodePoint(SeqCodePoint(bytes, starts[k]))])
       ELSE Raised

B64Chars ==
  << "A", "B", "C", "D", "E", "F", "G", "H", "I", "J", "K", "L", "M",
     "N", "O", "P", "Q", "R", "S", "T", "U", "V", "W", "X", "Y", "Z",
     "a", "b", "c", "d", "e", "f", "g", "h", "i", "j", "k", "l", "m",
     "n", "o", "p", "q", "r", "s", "t", "u", "v", "w", "x", "y", "z",
     "0", "1", "2", "3", "4", "5", "6", "7", "8", "9", "+", "/" >>

SextetOf ==
  [c \in {B64Chars[i] : i \in 1..64} |-> (CHOOSE i \in 1..64 : B64Chars[i] = c) - 1]

\* base64.b64encode(bytes).decode('ascii')
b64encode(bytes) ==
  LET n == Len(bytes)
      At(i) == IF i <= n THEN bytes[i] ELSE 0
  IN [k \in 1..(4 * ((n + 2) \div 3)) |->
        LET q == (k - 1) \div 4
            r == (k - 1) % 4
            v == (At((3 * q) + 1) * 65536) + (At((3 * q) + 2) * 256) + At((3 * q) + 3)
        IN IF r >= 2 /\ (3 * q) + r > n THEN "="
           ELSE B64Chars[((v \div (64 ^ (3 - r))) % 64) + 1]]

\* base64.b64decode(text) of a str, without validation: a non-ASCII character
\* raises; characters outside the alphabet are skipped; a '=' that completes
\* the padding of a quad ends the input (binascii.a2b_base64, CPython 3.11);
\* an incomplete final quad raises
b64decode(text) ==
  LET n == Len(text)
      IsData(c) == c \in DOMAIN SextetOf
      LastData(i) == IF \E j \in 1..(i - 1) : IsData(text[j])
                       THEN CHOOSE j \in 1..(i - 1) :
                              IsData(text[j]) /\ \A m \in (j + 1)..(i - 1) : ~IsData(text[m])
                       ELSE 0
      QuadPos(i) == Cardinality({j \in 1..(i - 1) : IsData(text[j])}) % 4
      Pads(i) == Cardinality({j \in (LastData(i) + 1)..i : text[j] = "="})
      stops == {i \in 1..n : /\ text[i] = "="
                             /\ QuadPos(i) >= 2
                             /\ QuadPos(i) + Pads(i) >= 4}
      used == IF stops = {} THEN text ELSE SubSeq(text, 1, Least(stops) - 1)
      data == SelectSeq(used, IsData)
      m == Len(data)
      D(i) == IF i <= m THEN SextetOf[data[i]] ELSE 0
  IN IF \E i \in 1..n : ~IsAscii(text[i]) THEN Raised
     ELSE IF stops = {} /\ m % 4 # 0 THEN Raised
     ELSE Returned([k \in 1..((m * 6) \div 8) |->
            LET q == (k - 1) \div 3
                r == (k - 1) % 3
            IN IF r = 0 THEN (D((4 * q) + 1) * 4) + (D((4 * q) + 2) \div 16)
               ELSE IF r = 1
                 THEN ((D((4 * q) + 2) % 16) * 16) + (D((4 * q) + 3) \div 4)
                 ELSE ((D((4 * q) + 3) % 4) * 64) + D((4 * q) + 4)])

\* base64.b64decode(text).decode('utf-8')
b64decode_text(text) ==
  LET d == b64decode(text)
  IN IF d.ok THEN Utf8Decode(d.value) ELSE Raised

----------------------------------------------------------------------------
(* Node URIs used as inputs *)

VlessScheme == <<"v","l","e","s","s",":","/","/">>

\* vless://u@1.2.3.4:443#a
NodeA == VlessScheme \o <<"u","@","1",".","2",".","3",".","4",":","4","4","3","#","a">>
\* the same endpoint under another label: vless://u@1.2.3.4:443#b
NodeA2 == VlessScheme \o <<"u","@","1",".","2",".","3",".","4",":","4","4","3","#","b">>
\* the same host on another port: vless://u@1.2.3.4:80#a
NodeA80 == VlessScheme \o <<"u","@","1",".","2",".","3",".","4",":","8","0","#","a">>
\* a domain host, no @ip:port to extract: vless://u@h.io:443#a
NodeDom == VlessScheme \o <<"u","@","h",".","i","o",":","4","4","3","#","a">>
\* the same domain endpoint under another label: vless://u@h.io:443#b
NodeDom2 == VlessScheme \o <<"u","@","h",".","i","o",":","4","4","3","#","b">>
\* a key that only the second '@' yields: vless://u@x@1.2.3.4:443
NodeAt2 == VlessScheme \o <<"u","@","x","@","1",".","2",".","3",".","4",":","4","4","3">>

MergePool == {NodeA, NodeA2, NodeA80, NodeDom, NodeDom2, NodeAt2}

MaxLocal == 2
MaxRemote == 2

----------------------------------------------------------------------------
(* Merge: re.search(r'@([\d\.]+):(\d+)', node) and the dedup loops *)

NoKey == <<>>

\* whether the pattern @([\d\.]+):(\d+) matches node starting at index i
KeyMatchAt(node, i) ==
  /\ node[i] = "@"
  /\ LET h == RunEnd(node, i + 1, DigitsAndDot)
     IN /\ h >= i + 1
        /\ h + 1 <= Len(node)
        /\ node[h + 1] = ":"
        /\ RunEnd(node, h + 2, Digits) >= h + 2

\* f"{match.group(1)}:{match.group(2)}" of the leftmost match, NoKey when the
\* search finds nothing
ExtractKey(node) ==
  LET I == {i \in 1..Len(node) : KeyMatchAt(node, i)}
  IN IF I = {} THEN NoKey
     ELSE LET i == Least(I)
              h == RunEnd(node, i + 1, DigitsAndDot)
              p == RunEnd(node, h + 2, Digits)
          IN SubSeq(node, i + 1, p)

\* a mutant of the loop body: the key is recorded but never consulted
MergeStepNoSeenCheck(acc, node) ==
  LET key == ExtractKey(node)
  IN [seen |-> acc.seen \cup {IF key # NoKey THEN key ELSE node},
      unique |-> Append(acc.unique, node)]

\* one iteration of the loop of VlessAutomation.merge_nodes: acc is
\* [seen, unique]; seen holds keys and, for nodes without a key, whole nodes
MergeStep(acc, node) ==
  LET key == ExtractKey(node)
  IN IF key # NoKey
       THEN IF key \notin acc.seen
              THEN [seen |-> acc.seen \cup {key}, unique |-> Append(acc.unique, node)]
              ELSE acc
       ELSE IF node \notin acc.seen
              THEN [seen |-> acc.seen \cup {node}, unique |-> Append(acc.unique, node)]
              ELSE acc

\* one iteration of the loop of NodeManager.merge_nodes: `if key and key not
\* in seen`, with no branch for a node without a key
ManagerStep(acc, node) ==
  LET key == ExtractKey(node)
  IN IF key # NoKey /\ key \notin acc.seen
       THEN [seen |-> acc.seen \cup {key}, unique |-> Append(acc.unique, node)]
       ELSE acc

\* `for node in all_nodes:` of VlessAutomation.merge_nodes
RECURSIVE MergeLoop(_, _)
MergeLoop(acc, nodes) ==
  IF nodes = <<>> THEN acc
  ELSE MergeLoop(MergeStep(acc, Head(nodes)), Tail(nodes))

\* `for node in all_nodes:` of NodeManager.merge_nodes
RECURSIVE ManagerLoop(_, _)
ManagerLoop(acc, nodes) ==
  IF nodes = <<>> THEN acc
  ELSE ManagerLoop(ManagerStep(acc, Head(nodes)), Tail(nodes))

EmptyAcc == [seen |-> {}, unique |-> <<>>]

\* a mutant of the concatenation: remote nodes first
merge_nodes_remote_first(local, remote) ==
  MergeLoop(EmptyAcc, remote \o local).unique

\* VlessAutomation.merge_nodes (and the inline loop of simple_main.main)
merge_nodes(local, remote) ==
  MergeLoop(EmptyAcc, local \o remote).unique

\* NodeManager.merge_nodes
manager_merge_nodes(local, remote) ==
  ManagerLoop(EmptyAcc, local \o remote).unique

----------------------------------------------------------------------------
(* Configuration defaults (config.py) *)

DEFAULT_PORT == 443
SNI == <<"k","n","n","y",".","d","p","d","n","s",".","o","r","g">>
HOST == <<"k","n","n","y",".","d","p","d","n","s",".","o","r","g">>
CUSTOM_PATH == <<"/","?","e","d","=","2","0","4","8">>
FINGERPRINT == <<"c","h","r","o","m","e">>

----------------------------------------------------------------------------
(* urllib.parse.unquote and int() *)

HexDigits ==
  Digits \cup {"A", "B", "C", "D", "E", "F", "a", "b", "c", "d", "e", "f"}

\* int(c, 16) of a hex digit
HexVal(c) ==
  IF c \in Digits THEN DigitVal(c)
  ELSE IF c \in {"A", "a"} THEN 10
  ELSE IF c \in {"B", "b"} THEN 11
  ELSE IF c \in {"C", "c"} THEN 12
  ELSE IF c \in {"D", "d"} THEN 13
  ELSE IF c \in {"E", "e"} THEN 14
  ELSE 15

\* whether s has an escape %XY at index i, and the byte it stands for
IsEscapeAt(s, i) ==
  /\ i + 2 <= Len(s)
  /\ s[i] = "%"
  /\ s[i + 1] \in HexDigits
  /\ s[i + 2] \in HexDigits

EscapeByte(s, i) == (HexVal(s[i + 1]) * 16) + HexVal(s[i + 2])

\* urllib.parse.unquote: each %XY with two hex digits is a byte, any other
\* character (a lone % included) is kept; the bytes are decoded as UTF-8 with
\* errors='replace', which puts one U+FFFD for a byte that leads no sequence
\* and one for a sequence cut short
RECURSIVE Unquote(_)
Unquote(s) ==
  IF s = <<>> THEN <<>>
  ELSE IF ~IsEscapeAt(s, 1) THEN <<s[1]>> \o Unquote(Tail(s))
  ELSE
    LET b == EscapeByte(s, 1)
        need == LeadLen(b) - 1
        Follows(k) == \A j \in 1..k :
                        /\ IsEscapeAt(s, 1 + (3 * j))
                        /\ ContOk(b, j, EscapeByte(s, 1 + (3 * j)))
        got == IF need <= 0 THEN 0
               ELSE CHOOSE k \in 0..need : Follows(k) /\ (k = need \/ ~Follows(k + 1))
        bytes == [j \in 1..(got + 1) |-> EscapeByte(s, 1 + (3 * (j - 1)))]
    IN (IF need >= 0 /\ got = need
          THEN <<CharOfCodePoint(SeqCodePoint(bytes, 1))>>
          ELSE <<"U+FFFD">>)
         \o Unquote(SubSeq(s, (3 * (got + 1)) + 1, Len(s)))

\* whether int(t) succeeds: surrounding whitespace, an optional sign, digits
IsIntText(t) ==
  LET u == Strip(t)
      d == IF u # <<>> /\ u[1] \in {"+", "-"} THEN Tail(u) ELSE u
  IN d # <<>> /\ \A i \in 1..Len(d) : d[i] \in Digits

IntOfText(t) ==
  LET u == Strip(t)
  IN IF u[1] = "-" THEN 0 - DigitsVal(Tail(u))
     ELSE IF u[1] = "+" THEN DigitsVal(Tail(u))
     ELSE DigitsVal(u)

----------------------------------------------------------------------------
(* YamlGenerator._parse_vless_url *)

\* the value of params.get(key, default) after the loop over
\* query_part.split("&"): the last "key=value" wins, its value unquoted
ParamGet(query_part, key, default) ==
  LET ps == IF query_part = <<>> THEN <<>> ELSE Split(query_part, "&")
      hits == {i \in 1..Len(ps) :
                 HasChar(ps[i], "=") /\ Before(ps[i], IndexOf(ps[i], "=")) = key}
  IN IF hits = {} THEN default
     ELSE LET i == CHOOSE h \in hits : \A g \in hits : g <= h
          IN Unquote(After(ps[i], IndexOf(ps[i], "=")))

\* [a.strip() for a in alpn_param.split(',') if a.strip()]
RECURSIVE StripNonEmpty(_)
StripNonEmpty(parts) ==
  IF parts = <<>> THEN <<>>
  ELSE (IF Strip(Head(parts)) # <<>> THEN <<Strip(Head(parts))>> ELSE <<>>)
         \o StripNonEmpty(Tail(parts))

AlpnDefault == << <<"h","2">>, <<"h","t","t","p","/","1",".","1">> >>

\* f"节点-{server}:{port}"
FallbackName(server, port) ==
  <<"U+8282", "U+70B9", "-">> \o server \o <<":">> \o IntText(port)

ParseError == [ok |-> FALSE]

\* the proxy_info of a node URI, or ParseError where the code raises
\* ValueError
parse_vless_url(url) ==
  IF ~StartsWith(url, VlessScheme) THEN ParseError
  ELSE
    LET u == SubSeq(url, Len(VlessScheme) + 1, Len(url))
    IN IF ~HasChar(u, "@") THEN ParseError
       ELSE
         LET uuid == Before(u, IndexOf(u, "@"))
             rest == After(u, IndexOf(u, "@"))
             q == IndexOf(rest, "?")
             server_port == IF q > 0 THEN Before(rest, q) ELSE rest
             query0 == IF q > 0 THEN After(rest, q) ELSE <<>>
         IN IF ~HasChar(server_port, ":") THEN ParseError
            ELSE
              LET c == LastIndexOf(server_port, ":")
                  server == Before(server_port, c)
                  port_str == After(server_port, c)
                  port == IF IsIntText(port_str) THEN IntOfText(port_str)
                          ELSE DEFAULT_PORT
                  h == IndexOf(query0, "#")
                  query_part == IF h > 0 THEN Before(query0, h) ELSE query0
                  remark == IF h > 0 THEN Unquote(After(query0, h)) ELSE <<>>
                  alpn_param == ParamGet(query_part, <<"a","l","p","n">>, <<>>)
              IN [ok |-> TRUE,
                  name |-> IF remark # <<>> THEN remark
                           ELSE FallbackName(server, port),
                  server |-> server,
                  port |-> port,
                  uuid |-> uuid,
                  network |-> ParamGet(query_part, <<"t","y","p","e">>, <<"w","s">>),
                  tls |-> ParamGet(query_part, <<"s","e","c","u","r","i","t","y">>,
                                   <<>>) = <<"t","l","s">>,
                  sni |-> ParamGet(query_part, <<"s","n","i">>, SNI),
                  host |-> ParamGet(query_part, <<"h","o","s","t">>, HOST),
                  path |-> ParamGet(query_part, <<"p","a","t","h">>, CUSTOM_PATH),
                  alpn |-> IF alpn_param # <<>>
                             THEN StripNonEmpty(Split(alpn_param, ","))
                             ELSE AlpnDefault,
                  fingerprint |-> ParamGet(query_part, <<"f","p">>, FINGERPRINT)]

\* the loop of generate_clash_yaml: the proxy_info of every node that parses,
\* in order; a node that raises is skipped
RECURSIVE ParseAll(_)
ParseAll(nodes) ==
  IF nodes = <<>> THEN <<>>
  ELSE LET info == parse_vless_url(Head(nodes))
       IN (IF info.ok THEN <<info>> ELSE <<>>) \o ParseAll(Tail(nodes))

----------------------------------------------------------------------------
(* YamlGenerator._build_yaml_content: the fixed lines of the template *)

\* yaml_generator.py lines 230-238: from the blank line after the header to `proxies:`
TemplateSettings ==
  << <<>>,
     <<"m","i","x","e","d","-","p","o","r","t",":"," ","7","8","9","0">>,
     <<"s","o","c","k","s","-","p","o","r","t",":"," ","7","8","9","1">>,
     <<"a","l","l","o","w","-","l","a","n",":"," ","t","r","u","e">>,
     <<"m","o","d","e",":"," ","r","u","l","e">>,
     <<"l","o","g","-","l","e","v","e","l",":"," ","i","n","f","o">>,
     <<"e","x","t","e","r","n","a","l","-","c","o","n","t","r","o","l","l","e","r",":"," ","1","2","7",".","0",".","0",".","1",":","9","0","9","0">>,
     <<>>,
     <<"p","r","o","x","i","e","s",":">> >>

\* lines 240-244: the blank line, `proxy-groups:` and the head of the select group
TemplateSelectGroup ==
  << <<>>,
     <<"p","r","o","x","y","-","g","r","o","u","p","s",":">>,
     <<" "," ","-"," ","n","a","m","e",":"," ","U+1F680"," ","U+8282","U+70B9","U+9009","U+62E9">>,
     <<" "," "," "," ","t","y","p","e",":"," ","s","e","l","e","c","t">>,
     <<" "," "," "," ","p","r","o","x","i","e","s",":">> >>

\* lines 246-250: the head of the url-test group
TemplateAutoGroup ==
  << <<" "," ","-"," ","n","a","m","e",":"," ","U+267B","U+FE0F"," ","U+81EA","U+52A8","U+9009","U+62E9">>,
     <<" "," "," "," ","t","y","p","e",":"," ","u","r","l","-","t","e","s","t">>,
     <<" "," "," "," ","u","r","l",":"," ","h","t","t","p",":","/","/","w","w","w",".","g","s","t","a","t","i","c",".","c","o","m","/","g","e","n","e","r","a","t","e","_","2","0","4">>,
     <<" "," "," "," ","i","n","t","e","r","v","a","l",":"," ","3","0","0">>,
     <<" "," "," "," ","p","r","o","x","i","e","s",":">> >>

\* lines 252-279: the third group and the rules; the text ends with a line break
TemplateTail ==
  << <<" "," ","-"," ","n","a","m","e",":"," ","U+1F4F2"," ","U+56FD","U+5916","U+5A92","U+4F53">>,
     <<" "," "," "," ","t","y","p","e",":"," ","s","e","l","e","c","t">>,
     <<" "," "," "," ","p","r","o","x","i","e","s",":">>,
     <<" "," "," "," "," "," ","-"," ","U+1F680"," ","U+8282","U+70B9","U+9009","U+62E9">>,
     <<" "," "," "," "," "," ","-"," ","U+267B","U+FE0F"," ","U+81EA","U+52A8","U+9009","U+62E9">>,
     <<" "," "," "," "," "," ","-"," ","D","I","R","E","C","T">>,
     <<>>,
     <<"r","u","l","e","s",":">>,
     <<" "," ","-"," ","D","O","M","A","I","N","-","S","U","F","F","I","X",",","o","p","e","n","a","i",".","c","o","m",",","U+1F4F2"," ","U+56FD","U+5916","U+5A92","U+4F53">>,
     <<" "," ","-"," ","D","O","M","A","I","N","-","S","U","F","F","I","X",",","c","h","a","t","g","p","t",".","c","o","m",",","U+1F4F2"," ","U+56FD","U+5916","U+5A92","U+4F53">>,
     <<" "," ","-"," ","D","O","M","A","I","N","-","S","U","F","F","I","X",",","b","i","n","g",".","c","o","m",",","U+1F4F2"," ","U+56FD","U+5916","U+5A92","U+4F53">>,
     <<" "," ","-"," ","D","O","M","A","I","N","-","S","U","F","F","I","X",",","g","i","t","h","u","b",".","c","o","m",",","U+1F4F2"," ","U+56FD","U+5916","U+5A92","U+4F53">>,
     <<" "," ","-"," ","D","O","M","A","I","N","-","S","U","F","F","I","X",",","g","i","t","l","a","b",".","c","o","m",",","U+1F4F2"," ","U+56FD","U+5916","U+5A92","U+4F53">>,
     <<" "," ","-"," ","D","O","M","A","I","N","-","S","U","F","F","I","X",",","t","w","i","t","t","e","r",".","c","o","m",",","U+1F4F2"," ","U+56FD","U+5916","U+5A92","U+4F53">>,
     <<" "," ","-"," ","D","O","M","A","I","N","-","S","U","F","F","I","X",",","f","a","c","e","b","o","o","k",".","c","o","m",",","U+1F4F2"," ","U+56FD","U+5916","U+5A92","U+4F53">>,
     <<" "," ","-"," ","D","O","M","A","I","N","-","S","U","F","F","I","X",",","i","n","s","t","a","g","r","a","m",".","c","o","m",",","U+1F4F2"," ","U+56FD","U+5916","U+5A92","U+4F53">>,
     <<" "," ","-"," ","D","O","M","A","I","N","-","S","U","F","F","I","X",",","y","o","u","t","u","b","e",".","c","o","m",",","U+1F4F2"," ","U+56FD","U+5916","U+5A92","U+4F53">>,
     <<" "," ","-"," ","D","O","M","A","I","N","-","S","U","F","F","I","X",",","n","e","t","f","l","i","x",".","c","o","m",",","U+1F4F2"," ","U+56FD","U+5916","U+5A92","U+4F53">>,
     <<" "," ","-"," ","D","O","M","A","I","N","-","S","U","F","F","I","X",",","d","i","s","n","e","y","p","l","u","s",".","c","o","m",",","U+1F4F2"," ","U+56FD","U+5916","U+5A92","U+4F53">>,
     <<" "," ","-"," ","D","O","M","A","I","N","-","S","U","F","F","I","X",",","s","p","o","t","i","f","y",".","c","o","m",",","U+1F4F2"," ","U+56FD","U+5916","U+5A92","U+4F53">>,
     <<" "," ","-"," ","D","O","M","A","I","N","-","S","U","F","F","I","X",",","t","e","l","e","g","r","a","m",".","o","r","g",",","U+1F4F2"," ","U+56FD","U+5916","U+5A92","U+4F53">>,
     <<" "," ","-"," ","D","O","M","A","I","N","-","S","U","F","F","I","X",",","w","h","a","t","s","a","p","p",".","c","o","m",",","U+1F4F2"," ","U+56FD","U+5916","U+5A92","U+4F53">>,
     <<" "," ","-"," ","D","O","M","A","I","N","-","S","U","F","F","I","X",",","d","i","s","c","o","r","d",".","c","o","m",",","U+1F4F2"," ","U+56FD","U+5916","U+5A92","U+4F53">>,
     <<" "," ","-"," ","D","O","M","A","I","N","-","S","U","F","F","I","X",",","g","o","o","g","l","e",".","c","o","m",",","U+1F4F2"," ","U+56FD","U+5916","U+5A92","U+4F53">>,
     <<" "," ","-"," ","D","O","M","A","I","N","-","S","U","F","F","I","X",",","g","s","t","a","t","i","c",".","c","o","m",",","U+1F4F2"," ","U+56FD","U+5916","U+5A92","U+4F53">>,
     <<" "," ","-"," ","G","E","O","I","P",",","C","N",",","D","I","R","E","C","T">>,
     <<" "," ","-"," ","M","A","T","C","H",",","U+1F680"," ","U+8282","U+70B9","U+9009","U+62E9">>,
     <<>> >>

\* lines 136-148, and the same text at lines 345-357: the document without nodes
MinimalYaml ==
  << <<"m","i","x","e","d","-","p","o","r","t",":"," ","7","8","9","0">>,
     <<"a","l","l","o","w","-","l","a","n",":"," ","t","r","u","e">>,
     <<"m","o","d","e",":"," ","r","u","l","e">>,
     <<"l","o","g","-","l","e","v","e","l",":"," ","i","n","f","o">>,
     <<"p","r","o","x","i","e","s",":"," ","[","]">>,
     <<"p","r","o","x","y","-","g","r","o","u","p","s",":">>,
     <<" "," ","-"," ","n","a","m","e",":"," ","U+1F680"," ","U+4EE3","U+7406">>,
     <<" "," "," "," ","t","y","p","e",":"," ","s","e","l","e","c","t">>,
     <<" "," "," "," ","p","r","o","x","i","e","s",":"," ","[","]">>,
     <<"r","u","l","e","s",":">>,
     <<" "," ","-"," ","G","E","O","I","P",",","C","N",",","D","I","R","E","C","T">>,
     <<" "," ","-"," ","M","A","T","C","H",",","U+1F680"," ","U+4EE3","U+7406">>,
     <<>> >>

----------------------------------------------------------------------------
(* YamlGenerator._build_yaml_content *)

\* characters for which neither c.isprintable() nor c.isspace() holds
NonPrintable == {"U+0000"}

\* the class [{}<>\[\]|&*#!%^@`~] of the re.sub ("U+0060" is the backtick)
UnsafeNameChars ==
  {"{", "}", "<", ">", "[", "]", "|", "&", "*", "#", "!", "%", "^", "@", "U+0060", "~"}

\* the name of an entry, from the proxy_info
SafeName(proxy) ==
  LET printable == Without(proxy.name, NonPrintable)
      stripped == Strip(Without(printable, {"\n", "\r"}))
      named == IF stripped = <<>> THEN FallbackName(proxy.server, proxy.port)
               ELSE stripped
  IN Strip(Without(named, UnsafeNameChars))

RECURSIVE SafeNames(_)
SafeNames(proxies) ==
  IF proxies = <<>> THEN <<>>
  ELSE <<SafeName(Head(proxies))>> \o SafeNames(Tail(proxies))

Quoted(text) == <<"\"">> \o text \o <<"\"">>

\* str(b).lower()
BoolText(b) == IF b THEN <<"t","r","u","e">> ELSE <<"f","a","l","s","e">>

\* the `      - "{alpn_item}"` lines
RECURSIVE AlpnLines(_)
AlpnLines(items) ==
  IF items = <<>> THEN <<>>
  ELSE (IF Strip(Head(items)) # <<>>
          THEN << <<" "," "," "," "," "," ","-"," ">> \o Quoted(Strip(Head(items))) >>
          ELSE <<>>) \o AlpnLines(Tail(items))

\* proxy_lines of one entry, its name already made safe
ProxyLines(proxy, name) ==
  << <<" "," ","-"," ","n","a","m","e",":"," ">> \o Quoted(name),
     <<" "," "," "," ","t","y","p","e",":"," ","v","l","e","s","s">>,
     <<" "," "," "," ","s","e","r","v","e","r",":"," ">> \o Quoted(proxy.server),
     <<" "," "," "," ","p","o","r","t",":"," ">> \o IntText(proxy.port),
     <<" "," "," "," ","u","u","i","d",":"," ">> \o Quoted(proxy.uuid),
     <<" "," "," "," ","n","e","t","w","o","r","k",":"," ">> \o Quoted(proxy.network),
     <<" "," "," "," ","t","l","s",":"," ">> \o BoolText(proxy.tls) >>
  \o (IF proxy.tls
        THEN (IF proxy.sni # <<>>
                THEN << <<" "," "," "," ","s","e","r","v","e","r","n","a","m","e",":"," ">> \o Quoted(proxy.sni) >>
                ELSE <<>>)
             \o (IF proxy.fingerprint # <<>>
                   THEN << <<" "," "," "," ","f","i","n","g","e","r","p","r","i","n","t",":"," ">> \o Quoted(proxy.fingerprint) >>
                   ELSE <<>>)
             \o (IF proxy.alpn # <<>>
                   THEN << <<" "," "," "," ","a","l","p","n",":">> >> \o AlpnLines(proxy.alpn)
                   ELSE <<>>)
        ELSE <<>>)
  \o (IF proxy.network = <<"w","s">>
        THEN << <<" "," "," "," ","w","s","-","o","p","t","s",":">>,
                <<" "," "," "," "," "," ","p","a","t","h",":"," ">> \o Quoted(proxy.path),
                <<" "," "," "," "," "," ","h","e","a","d","e","r","s",":">>,
                <<" "," "," "," "," "," "," "," ","H","o","s","t",":"," ">> \o Quoted(proxy.host) >>
        ELSE <<>>)
  \o << <<" "," "," "," ","u","d","p",":"," ","t","r","u","e">>,
        <<" "," "," "," ","s","k","i","p","-","c","e","r","t","-","v","e","r","i","f","y",":"," ","f","a","l","s","e">>,
        <<>> >>

RECURSIVE AllProxyLines(_)
AllProxyLines(proxies) ==
  IF proxies = <<>> THEN <<>>
  ELSE ProxyLines(Head(proxies), SafeName(Head(proxies)))
         \o AllProxyLines(Tail(proxies))

\* the `      - "{name}"` lines of a group
RECURSIVE NameLines(_)
NameLines(names) ==
  IF names = <<>> THEN <<>>
  ELSE << <<" "," "," "," "," "," ","-"," ">> \o Quoted(Head(names)) >> \o NameLines(Tail(names))

\* '\n'.join(lines), as the list of the texts between its line breaks: a line
\* break inside a value starts a new line
SplitLines(lines) ==
  Flatten([i \in 1..Len(lines) |-> Split(lines[i], "\n")])

\* yaml_template, as its lines; timestamp is datetime.now() formatted
YamlTemplate(proxies, timestamp) ==
  SplitLines(
    << <<"#"," ","C","l","a","s","h"," ","U+914D","U+7F6E">>,
       <<"#"," ","U+751F","U+6210","U+65F6","U+95F4",":"," ">> \o timestamp,
       <<"#"," ","U+8282","U+70B9","U+6570","U+91CF",":"," ">> \o IntText(Len(proxies)) >>
    \o TemplateSettings
    \o AllProxyLines(proxies)
    \o TemplateSelectGroup
    \o NameLines(SafeNames(proxies))
    \o TemplateAutoGroup
    \o NameLines(SafeNames(proxies))
    \o TemplateTail)

----------------------------------------------------------------------------
(* YamlGenerator._validate_yaml and generate_clash_yaml *)

IsBlank(line) == Strip(line) = <<>>

\* yaml_content.strip().split('\n'), on the lines of yaml_content
StripDoc(lines) ==
  LET full == {i \in 1..Len(lines) : ~IsBlank(lines[i])}
  IN IF full = {} THEN << <<>> >>
     ELSE LET first == Least(full)
              last == CHOOSE i \in full : \A j \in full : j <= i
          IN IF first = last THEN << Strip(lines[first]) >>
             ELSE << LStrip(lines[first]) >>
                    \o SubSeq(lines, first + 1, last - 1)
                    \o << RStrip(lines[last]) >>

\* the characters of ':[]{}#&*!|>\\%@`\'' that make a value quoted
QuoteTriggers ==
  {":", "[", "]", "{", "}", "#", "&", "*", "!", "|", ">", "\\", "%", "@",
   "U+0060", "'"}

\* value.replace('"', '\\"')
RECURSIVE EscapeQuotes(_)
EscapeQuotes(value) ==
  IF value = <<>> THEN <<>>
  ELSE (IF Head(value) = "\"" THEN <<"\\", "\"">> ELSE <<Head(value)>>)
         \o EscapeQuotes(Tail(value))

\* a mutant of the rebuilt line: a line whose value holds no quote trigger is
\* rebuilt without its value
RebuildLineDropsPlainValue(line) ==
  LET indent == Spaces(LeadingSpaces(line))
      colon == IndexOf(line, ":")
      key == Strip(Before(line, colon))
      value == Strip(After(line, colon))
  IN IF value # <<>> /\ \E i \in 1..Len(value) : value[i] \in QuoteTriggers
       THEN indent \o key \o <<":", " ">> \o Quoted(EscapeQuotes(value))
       ELSE indent \o key \o <<":">>

\* "重建行": the line rebuilt from line.split(':', 1)
RebuildLine(line) ==
  LET indent == Spaces(LeadingSpaces(line))
      colon == IndexOf(line, ":")
      key == Strip(Before(line, colon))
      value == Strip(After(line, colon))
  IN IF value # <<>>
       THEN IF \E i \in 1..Len(value) : value[i] \in QuoteTriggers
              THEN indent \o key \o <<":", " ">> \o Quoted(EscapeQuotes(value))
              ELSE indent \o key \o <<":", " ">> \o value
       ELSE indent \o key \o <<":">>

\* `'alpn:' in line and not line.strip().startswith('#')`, for a line that
\* is not blank
IsAlpnHeader(line) ==
  /\ ~IsBlank(line)
  /\ Contains(line, <<"a","l","p","n",":">>)
  /\ ~StartsWith(Strip(line), <<"#">>)

\* in_alpn_list where the loop tests `':' in line and not in_alpn_list` for
\* lines[i], a line that is neither blank nor an alpn header. The loop sets
\* the flag at an alpn header, lines[j], with alpn_indent the indent of that
\* line, and clears it at a blank line and at a line indented no deeper than
\* alpn_indent; so the flag is set for lines[i] exactly when no line after
\* the last header before it, lines[i] included, has cleared it.
InAlpnList(lines, i) ==
  \E j \in 1..(i - 1) :
    /\ IsAlpnHeader(lines[j])
    /\ \A m \in (j + 1)..i :
         /\ ~IsBlank(lines[m])
         /\ ~IsAlpnHeader(lines[m])
         /\ LeadingSpaces(lines[m]) > LeadingSpaces(lines[j])

\* what the loop appends to validated_lines for lines[i]
ValidateLine(lines, i) ==
  LET line == RStrip(lines[i])
  IN IF IsBlank(line) THEN <<>>
     ELSE IF IsAlpnHeader(line) THEN line
     ELSE IF HasChar(line, ":") /\ ~InAlpnList(lines, i) THEN RebuildLine(line)
     ELSE line

\* `while validated_lines and not validated_lines[-1].strip(): pop()`
RECURSIVE DropBlankTail(_)
DropBlankTail(lines) ==
  IF lines # <<>> /\ IsBlank(lines[Len(lines)])
    THEN DropBlankTail(SubSeq(lines, 1, Len(lines) - 1))
    ELSE lines

\* the lines of the validated document
validate_yaml(yaml_lines) ==
  LET lines == StripDoc(yaml_lines)
  IN DropBlankTail([i \in 1..Len(lines) |-> ValidateLine(lines, i)])

\* _build_yaml_content, as the lines of the text it returns
build_yaml_content(proxies, timestamp) ==
  IF proxies = <<>> THEN MinimalYaml
  ELSE validate_yaml(YamlTemplate(proxies, timestamp))

\* YamlGenerator.generate_clash_yaml, as the lines of the text it returns
generate_clash_yaml(nodes, timestamp) ==
  IF nodes = <<>> THEN MinimalYaml
  ELSE build_yaml_content(ParseAll(nodes), timestamp)

----------------------------------------------------------------------------
(* CSVProcessor (utils/csv_processor.py), for texts without quote characters
   and carriage returns *)

Letters == {AsciiChars[i] : i \in (66..91) \cup (98..123)}

\* the characters \w matches
WordChars == Letters \cup Digits \cup {"_"}

\* a record with no host stands for (None, _), a port of 0 for None
NoRecord == [ip |-> <<>>, port |-> 0]

\* CSVProcessor._is_valid_ip
is_valid_ip(ip) ==
  LET parts == Split(ip, ".")
  IN /\ ip # <<>>
     /\ Len(parts) = 4
     /\ \A k \in 1..4 :
          /\ parts[k] # <<>>
          /\ \A i \in 1..Len(parts[k]) : parts[k][i] \in Digits
          /\ DigitsVal(parts[k]) <= 255

\* a mutant of the port: only the ports below 1024 are taken
PortOfWellKnown(text) ==
  LET InRange(port) == IF port >= 1 /\ port <= 1023 THEN port ELSE 0
  IN IF IsIntText(text) THEN InRange(IntOfText(text)) ELSE 0

\* the port that int(text) gives when it is in 1..65535, 0 otherwise
PortOf(text) ==
  LET InRange(port) == IF port >= 1 /\ port <= 65535 THEN port ELSE 0
  IN IF IsIntText(text) THEN InRange(IntOfText(text)) ELSE 0

\* the loop of CSVProcessor._extract_ip_port_from_row over the cells from
\* index i on, with the ip and port found so far
RECURSIVE ExtractFromCells(_, _, _, _)
ExtractFromCells(row, i, ip, port) ==
  IF i > Len(row)
    THEN [ip |-> ip, port |-> IF ip # <<>> /\ port = 0 THEN DEFAULT_PORT ELSE port]
  ELSE
    LET Cell(cell, parts) ==
          LET pair == row[i] # <<>> /\ HasChar(cell, ":") /\ Len(parts) = 2
              \* the ip:port form, then the ip alone, then the port alone
              Found(pair_ip, pair_port, cell_ip, cell_port) ==
                LET ip1 == IF pair_ip THEN Strip(parts[1]) ELSE ip
                    port1 == IF pair_ip /\ pair_port # 0 THEN pair_port ELSE port
                IN IF pair /\ ip1 # <<>> /\ port1 # 0
                     THEN [ip |-> ip1, port |-> port1]
                     ELSE ExtractFromCells(row, i + 1,
                                           IF cell_ip THEN cell ELSE ip1,
                                           IF cell_port # 0 THEN cell_port ELSE port1)
          IN Found(pair /\ is_valid_ip(Strip(parts[1])),
                   IF pair THEN PortOf(parts[2]) ELSE 0,
                   is_valid_ip(cell),
                   PortOf(cell))
        Stripped(cell) == Cell(cell, Split(cell, ":"))
    IN IF row[i] = <<>> THEN ExtractFromCells(row, i + 1, ip, port)
       ELSE Stripped(Strip(row[i]))

\* the records that the csv.reader loop of parse_csv appends under one
\* delimiter: one for every row in which an ip is found
RowRecords(csv_content, delimiter) ==
  LET IsRow(line) == line # <<>>
      HasIp(r) == r.ip # <<>>
      Rows(lines) ==
        SelectSeq([k \in 1..Len(lines) |->
                     ExtractFromCells(Split(lines[k], delimiter), 1, <<>>, 0)],
                  HasIp)
  IN Rows(SelectSeq(Split(csv_content, "\n"), IsRow))

\* the end of the match of \d{1,3}\.\d{1,3}\.\d{1,3}\.\d{1,3} at index i of s
\* whose last run of digits ends where the digits end, 0 if there is none:
\* the first three runs end at their dots, and what follows the last one in
\* either pattern of _extract_with_regex is no digit
QuadEnd(s, i) ==
  LET Dot(e) == e + 1 <= Len(s) /\ s[e + 1] = "."
      Ends(e1, e2, e3, e4) ==
        IF /\ e1 >= i /\ e1 - i <= 2 /\ Dot(e1)
           /\ e2 >= e1 + 2 /\ e2 - e1 <= 4 /\ Dot(e2)
           /\ e3 >= e2 + 2 /\ e3 - e2 <= 4 /\ Dot(e3)
           /\ e4 >= e3 + 2 /\ e4 - e3 <= 4
          THEN e4
          ELSE 0
      Third(e1, e2, e3) == Ends(e1, e2, e3, RunEnd(s, e3 + 2, Digits))
      Second(e1, e2) == Third(e1, e2, RunEnd(s, e2 + 2, Digits))
      First(e1) == Second(e1, RunEnd(s, e1 + 2, Digits))
  IN First(RunEnd(s, i, Digits))

\* re.findall of (\d{1,3}\.\d{1,3}\.\d{1,3}\.\d{1,3}):(\d{1,5}) in s from
\* index from on, as the records that the loop of _extract_with_regex keeps
RECURSIVE FindIpPorts(_, _)
FindIpPorts(s, from) ==
  LET PortEnd(e4, p) ==
        IF e4 # 0 /\ e4 + 1 <= Len(s) /\ s[e4 + 1] = ":" /\ p >= e4 + 2
          THEN (IF p - e4 - 1 > 5 THEN e4 + 6 ELSE p)
          ELSE 0
      AfterQuad(e4) == PortEnd(e4, RunEnd(s, e4 + 2, Digits))
      MatchEnd(i) == AfterQuad(QuadEnd(s, i))
      Keep(ip, port) ==
        IF is_valid_ip(ip) /\ port >= 1 /\ port <= 65535
          THEN <<[ip |-> ip, port |-> port]>>
          ELSE <<>>
      Match(i, e4, end) ==
        Keep(SubSeq(s, i, e4), DigitsVal(SubSeq(s, e4 + 2, end)))
          \o FindIpPorts(s, end + 1)
      Leftmost(i) == Match(i, QuadEnd(s, i), MatchEnd(i))
      From(starts) == IF starts = {} THEN <<>> ELSE Leftmost(Least(starts))
  IN From({i \in from..Len(s) : MatchEnd(i) # 0})

\* re.findall of \b\d{1,3}\.\d{1,3}\.\d{1,3}\.\d{1,3}\b in s from index from
\* on, each valid ip with the default port
RECURSIVE FindIps(_, _)
FindIps(s, from) ==
  LET Boundary(i) == i < 1 \/ i > Len(s) \/ s[i] \notin WordChars
      Whole(i, e4) == Boundary(i - 1) /\ e4 # 0 /\ Boundary(e4 + 1)
      Keep(ip) ==
        IF is_valid_ip(ip) THEN <<[ip |-> ip, port |-> DEFAULT_PORT]>> ELSE <<>>
      Match(i, e4) == Keep(SubSeq(s, i, e4)) \o FindIps(s, e4 + 1)
      Leftmost(i) == Match(i, QuadEnd(s, i))
      From(starts) == IF starts = {} THEN <<>> ELSE Leftmost(Least(starts))
  IN From({i \in from..Len(s) : Whole(i, QuadEnd(s, i))})

\* CSVProcessor._extract_with_regex
extract_with_regex(text) ==
  LET colon == [i \in 1..Len(text) |->
                  IF text[i] \in {",", ";", "\t"} THEN ":" ELSE text[i]]
      \* re.sub(r'\s+', ':', ...): the first character of a run of whitespace
      \* becomes the colon, the others go
      Kept(i) == colon[i] \notin Whitespace \/ i = 1 \/ colon[i - 1] \notin Whitespace
      Normalized(kept) ==
        [k \in 1..Len(kept) |->
           IF colon[kept[k]] \in Whitespace THEN ":" ELSE colon[kept[k]]]
      Results(ip_ports) == IF ip_ports # <<>> THEN ip_ports ELSE FindIps(text, 1)
  IN Results(FindIpPorts(Normalized(SelectSeq([i \in 1..Len(text) |-> i], Kept)),
                         1))

\* a mutant of parse_csv: the records found, repeated ones included
parse_csv_repeated(csv_content) ==
  LET delimiters == <<",", ";", "\t", " ">>
      Sniffed(hits) ==
        IF hits # {} THEN RowRecords(csv_content, delimiters[Least(hits)])
        ELSE extract_with_regex(csv_content)
  IN IF Strip(csv_content) = <<>> THEN <<>>
     ELSE Sniffed({k \in 1..4 : RowRecords(csv_content, delimiters[k]) # <<>>})

\* CSVProcessor.parse_csv: the records of the first delimiter that yields
\* any, else those of the regular expressions, without repeated (ip, port)
parse_csv(csv_content) ==
  LET delimiters == <<",", ";", "\t", " ">>
      Sniffed(hits) ==
        IF hits # {} THEN RowRecords(csv_content, delimiters[Least(hits)])
        ELSE extract_with_regex(csv_content)
      Unique(ip_port_pairs) ==
        LET First(k) == \A j \in 1..(k - 1) : ip_port_pairs[j] # ip_port_pairs[k]
            Kept(firsts) == [k \in 1..Len(firsts) |-> ip_port_pairs[firsts[k]]]
        IN Kept(SelectSeq([k \in 1..Len(ip_port_pairs) |-> k], First))
  IN IF Strip(csv_content) = <<>> THEN <<>>
     ELSE Unique(Sniffed({k \in 1..4 :
                            RowRecords(csv_content, delimiters[k]) # <<>>}))

----------------------------------------------------------------------------
(* VlessAutomation.generate_vless_nodes and _create_vless_link (main.py) *)

UUID == <<"4","7","1","a","8","e","6","4","-","7","b","2","1","-","4","7","0","3","-","b","1","d","1","-","4","5","a","2","2","1","0","9","8","4","5","9">>
REMARKS_PREFIX == <<"U+9999","U+6E2F","U+8282","U+70B9","-">>
FORCE_PORT_443 == TRUE

\* urllib.parse.quote(text): letters, digits and _ . - ~ / are kept, every
\* other character becomes %XX for each byte of its UTF-8 encoding
RECURSIVE Quote(_)
Quote(text) ==
  IF text = <<>> THEN <<>>
  ELSE LET bytes == Utf8Encode(<<Head(text)>>)
           Hex(b) == <<"%", HexChars[(b \div 16) + 1], HexChars[(b % 16) + 1]>>
       IN (IF Head(text) \in Letters \cup Digits \cup {"_", ".", "-", "~", "/"}
             THEN <<Head(text)>>
             ELSE Flatten([j \in 1..Len(bytes) |-> Hex(bytes[j])]))
            \o Quote(Tail(text))

\* the f-string of _create_vless_link and of _generate_vless_link under a
\* value of config.UUID, which is written as it is; the parameters and the
\* remark are quoted
VlessLink(uuid, ip, port, remark) ==
  VlessScheme \o uuid \o <<"@">> \o ip \o <<":">> \o IntText(port) \o <<"?">>
    \o <<"e","n","c","r","y","p","t","i","o","n","=","n","o","n","e","&","s","e","c","u","r","i","t","y","=","t","l","s","&","s","n","i","=">> \o Quote(SNI)
    \o <<"&","f","p","=">> \o Quote(FINGERPRINT)
    \o <<"&","t","y","p","e","=","w","s","&","h","o","s","t","=">> \o Quote(HOST)
    \o <<"&","p","a","t","h","=">> \o Quote(CUSTOM_PATH)
    \o <<"&","a","l","p","n","=">> \o Quote(<<"h","2",",","h","t","t","p","/","1",".","1">>)
    \o <<"&","f","l","o","w","=">> \o <<"#">> \o Quote(remark)

\* VlessAutomation._create_vless_link
create_vless_link(ip, port, remark) == VlessLink(UUID, ip, port, remark)

\* a mutant of the effective port: the record's own port under either policy
FinalPortOfRecord(force, port) == port

\* final_port = 443 if config.FORCE_PORT_443 else port
final_port(force, port) == IF force THEN 443 ELSE port

\* the loop of VlessAutomation.generate_vless_nodes under a value of
\* config.FORCE_PORT_443: the k-th record is numbered among the records
\* before it with the same first two octets; today is strftime("%m%d")
GenerateNodes(ip_port_pairs, today, force) ==
  LET Prefix(ip) == LET parts == Split(ip, ".")
                    IN IF Len(parts) >= 2 THEN <<parts[1], parts[2]>> ELSE parts
      Counter(k) == Cardinality({j \in 1..k :
                      Prefix(ip_port_pairs[j].ip) = Prefix(ip_port_pairs[k].ip)})
      ZFill2(n) == IF n < 10 THEN <<"0">> \o NatText(n) ELSE NatText(n)
      FinalPort(k) == final_port(force, ip_port_pairs[k].port)
  IN [k \in 1..Len(ip_port_pairs) |->
        create_vless_link(ip_port_pairs[k].ip, FinalPort(k),
          REMARKS_PREFIX \o today \o <<"-">> \o ZFill2(Counter(k)) \o <<"-">>
            \o IntText(FinalPort(k)) \o <<"-">> \o ip_port_pairs[k].ip)]

\* VlessAutomation.generate_vless_nodes, with the configuration of the run
generate_vless_nodes(ip_port_pairs, today) ==
  GenerateNodes(ip_port_pairs, today, FORCE_PORT_443)

\* VlessAutomation.create_base64: one layer
create_base64(plain_text) == b64encode(Utf8Encode(plain_text))

\* [line.strip() for line in text.split('\n') if line.strip()]
NonBlankLines(text) ==
  LET lines == Split(text, "\n")
      NonBlank(line) == Strip(line) # <<>>
      kept == SelectSeq(lines, NonBlank)
  IN [k \in 1..Len(kept) |-> Strip(kept[k])]

\* the remote_nodes that run makes of a non-empty remote_content: the lines
\* of the double decode if both decodes succeed, else of the single decode if
\* that succeeds, else of the content itself; of these the vless:// ones
decode_remote_nodes(remote_content) ==
  LET IsVless(node) == StartsWith(node, VlessScheme)
      Nodes(text) == SelectSeq(NonBlankLines(text), IsVless)
      Double(first_decode, second_decode) ==
        Nodes(IF second_decode.ok THEN second_decode.value
              ELSE first_decode.value)
      Single(first_decode) ==
        IF first_decode.ok
          THEN Double(first_decode, b64decode_text(first_decode.value))
          ELSE Nodes(remote_content)
  IN Single(b64decode_text(remote_content))

----------------------------------------------------------------------------
(* Node URIs used as inputs of the renderer *)

\* a label that needs no cleaning: vless://u@1.2.3.4:443?security=tls#ok
RNodeOk == VlessScheme \o <<"u","@","1",".","2",".","3",".","4",":","4","4","3","?","s","e","c","u","r","i","t","y","=","t","l","s","#","o","k">>

\* no label, so the entry is named by the fallback: vless://u@1.2.3.4:443?type=ws
RNodeNoLabel == VlessScheme \o <<"u","@","1",".","2",".","3",".","4",":","4","4","3","?","t","y","p","e","=","w","s">>

\* a label with ':': vless://u@1.2.3.5:443?type=ws#a%3Ab
RNodeColon == VlessScheme \o <<"u","@","1",".","2",".","3",".","5",":","4","4","3","?","t","y","p","e","=","w","s","#","a","%","3","A","b">>

\* a label with an apostrophe: vless://u@1.2.3.5:443?type=ws#it%27s
RNodeApos == VlessScheme \o <<"u","@","1",".","2",".","3",".","5",":","4","4","3","?","t","y","p","e","=","w","s","#","i","t","%","2","7","s">>

\* a label of removed symbols only: vless://u@1.2.3.6:443?type=ws#%23
RNodeHash == VlessScheme \o <<"u","@","1",".","2",".","3",".","6",":","4","4","3","?","t","y","p","e","=","w","s","#","%","2","3">>

\* no '@': the parser raises: vless://nohost
RNodeNoAt == VlessScheme \o <<"n","o","h","o","s","t">>

\* a port that is no number: vless://u@1.2.3.7:x?type=ws#p
RNodePortX == VlessScheme \o <<"u","@","1",".","2",".","3",".","7",":","x","?","t","y","p","e","=","w","s","#","p">>

\* the label of RNodeOk on another endpoint: vless://u@5.6.7.8:443?type=ws#ok
RNodeOk2 == VlessScheme \o <<"u","@","5",".","6",".","7",".","8",":","4","4","3","?","t","y","p","e","=","w","s","#","o","k">>

\* another scheme: http://u@1.2.3.8:443?type=ws#s
RNodeHttp == <<"h","t","t","p",":","/","/","u","@","1",".","2",".","3",".","8",":","4","4","3","?","t","y","p","e","=","w","s","#","s">>

\* no port after the address: vless://u@1.2.3.9?type=ws#n
RNodeNoPort == VlessScheme \o <<"u","@","1",".","2",".","3",".","9","?","t","y","p","e","=","w","s","#","n">>

RenderPool ==
  {RNodeOk, RNodeNoLabel, RNodeColon, RNodeApos,
   RNodeHash, RNodeNoAt, RNodePortX, RNodeOk2, RNodeHttp, RNodeNoPort}

\* datetime.now().strftime("%Y-%m-%d %H:%M:%S") at two moments
Now == <<"2","0","2","6","-","1","1","-","0","4"," ","0","4",":","3","0",":","1","9">>

Timestamps ==
  { Now,
    <<"2","0","2","6","-","1","1","-","0","4"," ","0","4",":","3","0",":","2","0">> }

MaxRenderNodes == 2

----------------------------------------------------------------------------
(* Inputs of the run: the clock, the configuration and the candidate CSV *)

\* an earlier day's datetime.now().strftime("%Y-%m-%d %H:%M:%S")
OldTimestamp == <<"2","0","2","6","-","1","1","-","0","3"," ","0","4",":","3","0",":","1","9">>

\* strftime("%m%d") at the moment of timestamp
TodayOf(timestamp) == <<timestamp[6], timestamp[7], timestamp[9], timestamp[10]>>

\* the candidate CSV of today and of the earlier day
CsvText == <<"i","p",",","p","o","r","t","\n","1",".","2",".","3",".","4",",","4","4","3","\n","1",".","2",".","9",".","9",",","8","0","8","0","\n">>
OldCsvText == <<"1",".","2",".","3",".","4",":","4","4","3","\n","5",".","6",".","7",".","8",":","4","4","3">>

\* GITHUB_TOKEN: absent or present
Tokens == {<<>>, <<"t">>}

\* GITHUB_REPO: the texts over a letter and the slash
MaxRepoLen == 2
Repos == SeqsUpTo({"o", "/"}, MaxRepoLen)

\* other writers interleave with a run at most this often
MaxOtherWrites == 1

----------------------------------------------------------------------------
VARIABLES
  local_nodes,    \* the new nodes (A)
  remote_nodes,   \* the previously published nodes (B)
  unique_nodes,   \* the merged nodes
  merged_by,      \* "none", "main" or "manager": which merge has run
  render_nodes,   \* the node URIs given to generate_clash_yaml
  render_time,    \* the clock: datetime.now() as the timestamp text
  yaml_content,   \* the lines of the rendered document
  rendered,       \* whether generate_clash_yaml has returned
  GITHUB_TOKEN,   \* config.GITHUB_TOKEN
  GITHUB_REPO,    \* config.GITHUB_REPO
  repo_files,     \* the remote store: path -> file
  other_writes,   \* how many writes other writers have made
  log,            \* the requests issued so far, with their responses
  pc,             \* where the process is
  exit_code,      \* the argument of sys.exit, -1 before
  base64_content, \* run: the raw node list to publish
  file_info,      \* upload_file: what the lookup before the PUT returned
  call,           \* GitHubClient: the operation called with its arguments
  retry,          \* GitHubClient: the loop variable
  waits,          \* GitHubClient: the asyncio.sleep durations so far
  result,         \* GitHubClient: what the operation returned
  fn_name,        \* a function called on its own: its name, "none" before
  fn_args,        \* the arguments of that call
  fn_result,      \* what the call returned
  fn_calls,       \* how many calls have been made
  node_counter,   \* VlessGenerator.node_counter: first two octets -> count
  force_port_443  \* config.FORCE_PORT_443 of the generator called

mergeVars == <<local_nodes, remote_nodes, unique_nodes, merged_by>>

renderVars == <<render_nodes, render_time, yaml_content, rendered>>

configVars == <<GITHUB_TOKEN, GITHUB_REPO>>

storeVars == <<repo_files, other_writes, log>>

procVars == <<pc, exit_code, base64_content, file_info>>

clientVars == <<call, retry, waits, result>>

fnVars ==
  <<fn_name, fn_args, fn_result, fn_calls, node_counter, force_port_443>>

vars ==
  <<mergeVars, renderVars, configVars, storeVars, procVars, clientVars, fnVars>>

----------------------------------------------------------------------------
(* The remote store: the GitHub contents API (spec.md section 7) *)

CSV_PATH == "f_node/results.csv"
OUTPUT_NODE_FILE == "AutoNode"
OUTPUT_YAML_FILE == "AutoNode.yaml"
\* GET /repos/{GITHUB_REPO}, the request of test_connection
REPO_ENDPOINT == "/repos"

Paths == {CSV_PATH, OUTPUT_NODE_FILE, OUTPUT_YAML_FILE}

\* a file of the store; the content of the YAML file is held as its lines
Absent == [exists |-> FALSE, content |-> <<>>]
File(content) == [exists |-> TRUE, content |-> content]

\* the revision token of a blob is a hash of its content: it is held as the
\* content, so that equal tokens mean equal content
NoSha == [known |-> FALSE, blob |-> <<>>]
Sha(content) == [known |-> TRUE, blob |-> content]

\* the base64 text of a `content` field in transit, held as the content it
\* decodes to: two such texts are equal exactly when the contents are
ApiContent(content) == [valid |-> TRUE, decoded |-> content]

\* the statuses of a request that the store does not answer: rejected
\* credentials, a server error, no response in time
Failures == {"403", "500", "timeout"}

Failed(status) == [status |-> status, sha |-> NoSha, content |-> ApiContent(<<>>)]

\* GET contents/{path}: the file with its token, or 404
StoreGet(files, path) ==
  IF files[path].exists
    THEN [status |-> "200", sha |-> Sha(files[path].content),
          content |-> ApiContent(files[path].content)]
    ELSE Failed("404")

\* the responses a GET can get
GetOutcomes(files, path) ==
  {StoreGet(files, path)} \cup {Failed(s) : s \in Failures}

\* PUT contents/{path}: a create without token, an update with the current
\* token; 422 without token or with content that is no base64, 409 with
\* another token, 404 with a token for no file
StorePutStatus(files, path, content, sha) ==
  IF ~content.valid THEN "422"
  ELSE IF ~files[path].exists THEN (IF sha.known THEN "404" ELSE "201")
  ELSE IF ~sha.known THEN "422"
  ELSE IF sha = Sha(files[path].content) THEN "200"
  ELSE "409"

\* the responses a PUT can get, each with the files it leaves: the store's
\* answer, a failure before the store, or an accepted write whose response
\* is lost
PutOutcomes(files, path, content, sha) ==
  LET status == StorePutStatus(files, path, content, sha)
      written == [files EXCEPT ![path] = File(content.decoded)]
  IN {[status |-> status,
       files |-> IF status \in {"200", "201"} THEN written ELSE files]}
       \cup {[status |-> s, files |-> files] : s \in Failures}
       \cup (IF status \in {"200", "201"}
               THEN {[status |-> "timeout", files |-> written]}
               ELSE {})

\* an entry of the log: for a GET the token returned, for a PUT the token sent
Request(method, path, status, sha) ==
  [method |-> method, path |-> path, status |-> status, sha |-> sha,
   replaced |-> FALSE]

\* the entry of a PUT: `replaced` tells whether the store holds other content
\* at the path after the request than before it
Write(path, outcome, sha) ==
  [Request("PUT", path, outcome.status, sha)
     EXCEPT !.replaced = outcome.files[path] # repo_files[path]]

\* at most this many requests of a run get no answer from the store
MaxFailures == 1

\* the failures a request of a run meets: main.py has one branch for every
\* status but 200 and 404, and one for every exception
RunFailures == {"500", "timeout"}

\* the responses the requests of a run can get, while requests may still fail
MayFail ==
  Cardinality({i \in DOMAIN log : log[i].status \in Failures}) < MaxFailures

Allowed(status) == status \notin Failures \/ (MayFail /\ status \in RunFailures)

RunConnect == {status \in {"200", "404"} \cup Failures : Allowed(status)}

RunGet(path) ==
  {response \in GetOutcomes(repo_files, path) : Allowed(response.status)}

RunPut(path, content, sha) ==
  {outcome \in PutOutcomes(repo_files, path, content, sha) :
     Allowed(outcome.status)}

\* what another writer puts at a path
OtherContent(path) ==
  IF path = OUTPUT_YAML_FILE THEN MinimalYaml
  ELSE create_base64(NodeDom2)

\* another writer updates a published file after a run has read the
\* published list, or during an operation of the client (an update before
\* that is another store to start from)
OtherWriter ==
  /\ other_writes < MaxOtherWrites
  /\ pc \notin {"main", "test_connection", "download_csv", "download_remote",
                "done", "idle", "returned"}
  /\ \E path \in {OUTPUT_NODE_FILE, OUTPUT_YAML_FILE} :
       /\ repo_files[path] # File(OtherContent(path))
       /\ repo_files' = [repo_files EXCEPT ![path] = File(OtherContent(path))]
  /\ other_writes' = other_writes + 1
  /\ UNCHANGED <<mergeVars, renderVars, configVars, fnVars, log, procVars,
                 clientVars>>

----------------------------------------------------------------------------
(* The parts that a specification does not exercise stay as they start *)

MergeIdle ==
  /\ local_nodes = <<>>
  /\ remote_nodes = <<>>
  /\ unique_nodes = <<>>
  /\ merged_by = "none"

RenderIdle ==
  /\ render_nodes = <<>>
  /\ render_time = <<>>
  /\ yaml_content = <<>>
  /\ rendered = FALSE

NoInfo == [found |-> FALSE, sha |-> NoSha, content |-> ApiContent(<<>>)]

NoCall == [op |-> "none", path |-> "", content |-> <<>>, is_base64 |-> FALSE]

NetworkIdle ==
  /\ GITHUB_TOKEN = <<>>
  /\ GITHUB_REPO = <<>>
  /\ repo_files = [p \in Paths |-> Absent]
  /\ other_writes = 0
  /\ log = <<>>
  /\ pc = "idle"
  /\ exit_code = -1
  /\ base64_content = <<>>
  /\ file_info = NoInfo

\* self.node_counter = {}
NoCounts == [ip_prefix \in {} |-> 0]

FnIdle ==
  /\ fn_name = "none"
  /\ fn_args = <<>>
  /\ fn_result = <<>>
  /\ fn_calls = 0
  /\ node_counter = NoCounts
  /\ force_port_443 = FORCE_PORT_443

ClientIdle ==
  /\ call = NoCall
  /\ retry = 0
  /\ waits = <<>>
  /\ result = Raised

----------------------------------------------------------------------------
(* Merge as a state machine: the inputs are drawn, then one of the merge
   implementations runs *)

MergeInit ==
  /\ local_nodes \in SeqsUpTo(MergePool, MaxLocal)
  /\ remote_nodes \in SeqsUpTo(MergePool, MaxRemote)
  /\ unique_nodes = <<>>
  /\ merged_by = "none"
  /\ RenderIdle
  /\ NetworkIdle
  /\ ClientIdle
  /\ FnIdle

MergeMain ==
  /\ merged_by = "none"
  /\ unique_nodes' = merge_nodes(local_nodes, remote_nodes)
  /\ merged_by' = "main"
  /\ UNCHANGED <<local_nodes, remote_nodes, renderVars, configVars, fnVars,
                 storeVars, procVars, clientVars>>

MergeManager ==
  /\ merged_by = "none"
  /\ unique_nodes' = manager_merge_nodes(local_nodes, remote_nodes)
  /\ merged_by' = "manager"
  /\ UNCHANGED <<local_nodes, remote_nodes, renderVars, configVars, fnVars,
                 storeVars, procVars, clientVars>>

MergeNext == MergeMain \/ MergeManager

SpecMerge == MergeInit /\ [][MergeNext]_vars

----------------------------------------------------------------------------
(* Render as a state machine: the input is drawn, then generate_clash_yaml
   runs *)

RenderInit ==
  /\ render_nodes \in SeqsUpTo(RenderPool, MaxRenderNodes)
  /\ render_time \in Timestamps
  /\ yaml_content = <<>>
  /\ rendered = FALSE
  /\ MergeIdle
  /\ NetworkIdle
  /\ ClientIdle
  /\ FnIdle

Render ==
  /\ ~rendered
  /\ yaml_content' = generate_clash_yaml(render_nodes, render_time)
  /\ rendered' = TRUE
  /\ UNCHANGED <<render_nodes, render_time, mergeVars, configVars, fnVars,
                 storeVars, procVars, clientVars>>

RenderNext == Render

SpecRender == RenderInit /\ [][RenderNext]_vars

----------------------------------------------------------------------------
(* One run of the pipeline: main() and VlessAutomation.run (main.py) *)

\* Config.validate: the token is set, the repository text holds a slash
validate ==
  /\ GITHUB_TOKEN # <<>>
  /\ ~(GITHUB_REPO = <<>> \/ ~HasChar(GITHUB_REPO, "/"))

None == [ok |-> FALSE, value |-> <<>>]

\* VlessAutomation.download_file: the decoded content of a 200, None otherwise
download_file(response) ==
  IF response.status = "200" THEN Returned(response.content.decoded)
  ELSE None

\* VlessAutomation._get_file_info: token and content of a 200, None otherwise
get_file_info(response) ==
  IF response.status = "200"
    THEN [found |-> TRUE, sha |-> response.sha, content |-> response.content]
    ELSE NoInfo

\* the document upload_file puts in place of an empty YAML content
EmptyYaml ==
  <<<<"p","r","o","x","i","e","s",":"," ","[","]">>,
    <<"p","r","o","x","y","-","g","r","o","u","p","s",":">>,
    <<" "," ","-"," ","n","a","m","e",":"," ","U+1F680"," ","U+4EE3","U+7406">>,
    <<" "," "," "," ","t","y","p","e",":"," ","s","e","l","e","c","t">>,
    <<" "," "," "," ","p","r","o","x","i","e","s",":"," ","[","]">>,
    <<"r","u","l","e","s",":">>,
    <<" "," ","-"," ","M","A","T","C","H",",","U+1F680"," ","U+4EE3","U+7406">>>>

\* VlessAutomation.upload_file: the content that is encoded and sent
UploadContent(path, content) ==
  LET empty == IF path = OUTPUT_YAML_FILE
                 THEN \A i \in 1..Len(content) : Strip(content[i]) = <<>>
                 ELSE Strip(content) = <<>>
  IN IF empty /\ path = OUTPUT_YAML_FILE THEN EmptyYaml ELSE content

Exit(code) ==
  /\ pc' = "done"
  /\ exit_code' = code

Goto(label) ==
  /\ pc' = label
  /\ exit_code' = exit_code

\* main: validate the configuration, then run
Main ==
  /\ pc = "main"
  /\ IF validate THEN Goto("test_connection") ELSE Exit(1)
  /\ UNCHANGED <<mergeVars, renderVars, configVars, fnVars, storeVars,
                 base64_content, file_info, clientVars>>

\* run, step 1: VlessAutomation.test_connection
TestConnection ==
  /\ pc = "test_connection"
  /\ \E status \in RunConnect :
       /\ log' = Append(log, Request("GET", REPO_ENDPOINT, status, NoSha))
       /\ IF status = "200" THEN Goto("download_csv") ELSE Exit(1)
  /\ UNCHANGED <<mergeVars, renderVars, configVars, fnVars, repo_files,
                 other_writes, base64_content, file_info, clientVars>>

\* run, steps 2 and 3: download the CSV, parse it and generate the new nodes
DownloadCsv ==
  /\ pc = "download_csv"
  /\ \E response \in RunGet(CSV_PATH) :
       LET csv_content == download_file(response)
       IN /\ log' = Append(log, Request("GET", CSV_PATH, response.status,
                                        response.sha))
          /\ IF ~csv_content.ok
               THEN Exit(1) /\ UNCHANGED local_nodes
               ELSE /\ Goto("download_remote")
                    /\ local_nodes' =
                         IF csv_content.value # <<>>
                           THEN generate_vless_nodes(
                                  parse_csv(csv_content.value),
                                  TodayOf(render_time))
                           ELSE <<>>
  /\ UNCHANGED <<remote_nodes, unique_nodes, merged_by, renderVars, configVars,
                 fnVars, repo_files, other_writes, base64_content, file_info,
                 clientVars>>

\* a mutant of step 4: a published list that cannot be read ends the run, as
\* a CSV that cannot be read does
DownloadRemoteOrFail ==
  /\ pc = "download_remote"
  /\ \E response \in RunGet(OUTPUT_NODE_FILE) :
       /\ ~download_file(response).ok
       /\ log' = Append(log, Request("GET", OUTPUT_NODE_FILE,
                                     response.status, response.sha))
  /\ Exit(1)
  /\ UNCHANGED <<mergeVars, renderVars, configVars, fnVars, repo_files,
                 other_writes, base64_content, file_info, clientVars>>

\* run, steps 4 to 6: download and decode the published list, merge, encode
DownloadRemote ==
  /\ pc = "download_remote"
  /\ \E response \in RunGet(OUTPUT_NODE_FILE) :
       LET remote_content == download_file(response)
           nodes == IF remote_content.ok /\ remote_content.value # <<>>
                      THEN decode_remote_nodes(remote_content.value)
                      ELSE <<>>
           merged == merge_nodes(local_nodes, nodes)
       IN /\ log' = Append(log, Request("GET", OUTPUT_NODE_FILE,
                                        response.status, response.sha))
          /\ remote_nodes' = nodes
          /\ unique_nodes' = merged
          /\ merged_by' = "main"
          /\ base64_content' = create_base64(Join(merged, "\n"))
  /\ Goto("info_node")
  /\ UNCHANGED <<local_nodes, renderVars, configVars, fnVars, repo_files,
                 other_writes, file_info, clientVars>>

\* run, step 6: look up the published node file (the result is only printed)
InfoNode ==
  /\ pc = "info_node"
  /\ \E response \in RunGet(OUTPUT_NODE_FILE) :
       log' = Append(log, Request("GET", OUTPUT_NODE_FILE, response.status,
                                  response.sha))
  /\ Goto("info_yaml")
  /\ UNCHANGED <<mergeVars, renderVars, configVars, fnVars, repo_files,
                 other_writes, base64_content, file_info, clientVars>>

\* run, step 6: look up the published YAML file, then render the document
InfoYaml ==
  /\ pc = "info_yaml"
  /\ render_nodes' = unique_nodes
  /\ yaml_content' = generate_clash_yaml(unique_nodes, render_time)
  /\ rendered' = TRUE
  /\ \E response \in RunGet(OUTPUT_YAML_FILE) :
       log' = Append(log, Request("GET", OUTPUT_YAML_FILE, response.status,
                                  response.sha))
  /\ Goto("upload_node_info")
  /\ UNCHANGED <<mergeVars, render_time, configVars, fnVars, repo_files,
                 other_writes, base64_content, file_info, clientVars>>

\* upload_file up to the PUT: look the file up, return True when its content
\* is the content to send
UploadLookup(path, content, put, success, code) ==
  \E response \in RunGet(path) :
    LET info == get_file_info(response)
        encoded_content == ApiContent(UploadContent(path, content))
    IN /\ log' = Append(log, Request("GET", path, response.status,
                                     response.sha))
       /\ file_info' = info
       /\ IF info.found /\ info.content = encoded_content
            THEN (IF success = "done" THEN Exit(code) ELSE Goto(success))
            ELSE Goto(put)

\* a mutant of the PUT: run goes on after an upload that returned False
UploadPutIgnoresFailure(path, content, success, code) ==
  \E outcome \in RunPut(path, ApiContent(UploadContent(path, content)),
                        file_info.sha) :
    /\ log' = Append(log, Write(path, outcome, file_info.sha))
    /\ repo_files' = outcome.files
    /\ IF success = "done" THEN Exit(code) ELSE Goto(success)

\* upload_file, the PUT: with the token of the lookup if there was a file;
\* True on 200 or 201, False on any other status or exception
UploadPut(path, content, success, code) ==
  \E outcome \in RunPut(path, ApiContent(UploadContent(path, content)),
                        file_info.sha) :
    /\ log' = Append(log, Write(path, outcome, file_info.sha))
    /\ repo_files' = outcome.files
    /\ IF outcome.status \in {"200", "201"}
         THEN (IF success = "done" THEN Exit(code) ELSE Goto(success))
         ELSE Exit(1)

\* run, step 7: upload_file(OUTPUT_NODE_FILE, base64_content)
UploadNodeInfo ==
  /\ pc = "upload_node_info"
  /\ UploadLookup(OUTPUT_NODE_FILE, base64_content, "upload_node_put",
                  "upload_yaml_info", 0)
  /\ UNCHANGED <<mergeVars, renderVars, configVars, fnVars, repo_files,
                 other_writes, base64_content, clientVars>>

UploadNodePut ==
  /\ pc = "upload_node_put"
  /\ UploadPut(OUTPUT_NODE_FILE, base64_content, "upload_yaml_info", 0)
  /\ UNCHANGED <<mergeVars, renderVars, configVars, fnVars, other_writes,
                 base64_content, file_info, clientVars>>

\* run, step 7: upload_file(OUTPUT_YAML_FILE, yaml_content), then main exits
UploadYamlInfo ==
  /\ pc = "upload_yaml_info"
  /\ UploadLookup(OUTPUT_YAML_FILE, yaml_content, "upload_yaml_put", "done", 0)
  /\ UNCHANGED <<mergeVars, renderVars, configVars, fnVars, repo_files,
                 other_writes, base64_content, clientVars>>

UploadYamlPut ==
  /\ pc = "upload_yaml_put"
  /\ UploadPut(OUTPUT_YAML_FILE, yaml_content, "done", 0)
  /\ UNCHANGED <<mergeVars, renderVars, configVars, fnVars, other_writes,
                 base64_content, file_info, clientVars>>

\* the stores a run can start from
StoreOf(csv, node, yaml) ==
  [p \in Paths |-> IF p = CSV_PATH THEN csv
                   ELSE IF p = OUTPUT_NODE_FILE THEN node
                   ELSE yaml]

\* what a run that ends with exit code 0 leaves published, given the CSV,
\* the nodes published before and the clock
PublishedBy(csv_content, earlier, timestamp) ==
  LET Files(nodes) ==
        [nodes |-> nodes,
         node_file |-> File(create_base64(Join(nodes, "\n"))),
         yaml_file |-> File(generate_clash_yaml(nodes, timestamp))]
  IN Files(merge_nodes(generate_vless_nodes(parse_csv(csv_content),
                                            TodayOf(timestamp)),
                       earlier))

\* a fresh repository, what an earlier day's run left, what a run at the
\* moment of timestamp left, and node files written by other tools: double
\* encoded, and in plain text; each with the moments at which a run starts
\* from it: what the run at timestamp left is met by a run at that moment and
\* by one a second later
PublishedFiles(timestamp) ==
  LET Left(old, same) ==
        {<<Absent, Absent, {timestamp}>>,
         <<old.node_file, old.yaml_file, {timestamp}>>,
         <<same.node_file, same.yaml_file, Timestamps>>,
         <<File(create_base64(create_base64(Join(<<NodeA, NodeDom>>, "\n")))),
           Absent, {timestamp}>>,
         <<File(Join(<<NodeDom, NodeA80>>, "\n")), File(MinimalYaml),
           {timestamp}>>}
      Today(old) == Left(old, PublishedBy(CsvText, old.nodes, timestamp))
  IN Today(PublishedBy(OldCsvText, <<>>, OldTimestamp))

\* the store that a run ending in success left at the moment Now, the
\* candidate CSV as it was then
LeftByEarlierRun ==
  LET Left(old) ==
        LET Store(earlier) ==
              StoreOf(File(CsvText), earlier.node_file, earlier.yaml_file)
        IN Store(PublishedBy(CsvText, old.nodes, Now))
  IN Left(PublishedBy(OldCsvText, <<>>, OldTimestamp))

CsvFiles == {Absent, File(<<>>), File(CsvText)}

DefaultToken == <<"t">>
DefaultRepo == <<"o", "/", "o">>

RunInit ==
  /\ MergeIdle
  /\ render_nodes = <<>>
  /\ yaml_content = <<>>
  /\ rendered = FALSE
  /\ \E csv \in CsvFiles, published \in PublishedFiles(Now) :
       /\ repo_files = StoreOf(csv, published[1], published[2])
       /\ render_time \in published[3]
  /\ LET fresh == repo_files = StoreOf(File(CsvText), Absent, Absent)
     IN /\ GITHUB_TOKEN \in (IF fresh THEN Tokens ELSE {DefaultToken})
        /\ GITHUB_REPO \in (IF fresh THEN Repos ELSE {DefaultRepo})
  /\ other_writes = 0
  /\ log = <<>>
  /\ pc = "main"
  /\ exit_code = -1
  /\ base64_content = <<>>
  /\ file_info = NoInfo
  /\ ClientIdle
  /\ FnIdle

RunNext ==
  \/ Main
  \/ TestConnection
  \/ DownloadCsv
  \/ DownloadRemote
  \/ InfoNode
  \/ InfoYaml
  \/ UploadNodeInfo
  \/ UploadNodePut
  \/ UploadYamlInfo
  \/ UploadYamlPut
  \/ OtherWriter

SpecRun == RunInit /\ [][RunNext]_vars

----------------------------------------------------------------------------
(* One operation of GitHubClient (utils/github_client.py) *)

MAX_RETRIES == 3

\* the operations called, with their arguments: an upload of text that is
\* base64, of text that is not, and of text to encode
ClientCalls ==
  {[op |-> "test_connection", path |-> REPO_ENDPOINT, content |-> <<>>,
    is_base64 |-> TRUE],
   [op |-> "download_file", path |-> OUTPUT_NODE_FILE, content |-> <<>>,
    is_base64 |-> TRUE],
   [op |-> "upload_file", path |-> OUTPUT_NODE_FILE,
    content |-> create_base64(NodeA), is_base64 |-> TRUE],
   [op |-> "upload_file", path |-> OUTPUT_NODE_FILE,
    content |-> <<"A">>, is_base64 |-> TRUE],
   [op |-> "upload_file", path |-> OUTPUT_NODE_FILE,
    content |-> NodeA, is_base64 |-> FALSE]}

\* the node files the store holds when the client is called
ClientFiles == {Absent, File(<<>>), File(NodeA), File(NodeDom)}

\* upload_file, step 2: the `content` field of the request; the store takes
\* it when it is base64 (of a text)
ClientContent(content, is_base64) ==
  LET Decoded(text) == [valid |-> text.ok, decoded |-> text.value]
  IN IF is_base64 THEN Decoded(b64decode_text(content))
     ELSE ApiContent(content)

\* `return value`
Return(value) ==
  /\ pc' = "returned"
  /\ result' = value
  /\ UNCHANGED <<retry, waits>>

\* the end of an iteration that did not return: the sleep when there is one
\* and it is not the last iteration, then the next iteration at label, or
\* the `return value` after the loop
Again(label, sleeps, value) ==
  /\ retry' = retry + 1
  /\ waits' = IF sleeps /\ retry < MAX_RETRIES - 1
                THEN Append(waits, 2 ^ retry)
                ELSE waits
  /\ IF retry + 1 < MAX_RETRIES
       THEN pc' = label /\ result' = result
       ELSE pc' = "returned" /\ result' = value

ClientCall ==
  /\ pc = "idle"
  /\ \E c \in ClientCalls :
       /\ call' = c
       /\ pc' = IF c.op = "upload_file" THEN "get_file_sha" ELSE c.op
  /\ UNCHANGED <<mergeVars, renderVars, configVars, fnVars, storeVars,
                 exit_code, base64_content, file_info, retry, waits, result>>

\* GitHubClient.test_connection, one iteration: True on 200, else the sleep
\* and the next iteration
ClientTestConnection ==
  /\ pc = "test_connection"
  /\ call.op = "test_connection"
  /\ \E status \in {"200", "404"} \cup Failures :
       /\ log' = Append(log, Request("GET", REPO_ENDPOINT, status, NoSha))
       /\ IF status = "200" THEN Return(Returned(<<>>))
          ELSE Again("test_connection", TRUE, None)
  /\ UNCHANGED <<mergeVars, renderVars, configVars, fnVars, repo_files,
                 other_writes, exit_code, base64_content, file_info, call>>

\* GitHubClient.download_file, one iteration: the text of a 200 with content,
\* None on 404; the next iteration at once after a 200 without content, after
\* the sleep otherwise
ClientDownloadFile ==
  /\ pc = "download_file"
  /\ \E response \in GetOutcomes(repo_files, call.path) :
       /\ log' = Append(log, Request("GET", call.path, response.status,
                                     response.sha))
       /\ IF response.status = "200" /\ response.content.decoded # <<>>
            THEN Return(Returned(response.content.decoded))
          ELSE IF response.status = "404" THEN Return(None)
          ELSE Again("download_file", response.status # "200", None)
  /\ UNCHANGED <<mergeVars, renderVars, configVars, fnVars, repo_files,
                 other_writes, exit_code, base64_content, file_info, call>>

\* GitHubClient.upload_file, step 1 of an iteration: _get_file_sha
ClientGetFileSha ==
  /\ pc = "get_file_sha"
  /\ \E response \in GetOutcomes(repo_files, call.path) :
       /\ log' = Append(log, Request("GET", call.path, response.status,
                                     response.sha))
       /\ file_info' = [found |-> response.status = "200",
                        sha |-> response.sha,
                        content |-> ApiContent(<<>>)]
  /\ pc' = "put"
  /\ UNCHANGED <<mergeVars, renderVars, configVars, fnVars, repo_files,
                 other_writes, exit_code, base64_content, clientVars>>

\* GitHubClient.upload_file, steps 2 and 3 of an iteration: the PUT with the
\* sha if there is one; True on 200 or 201, else the sleep and the next
\* iteration
ClientPut ==
  /\ pc = "put"
  /\ \E outcome \in PutOutcomes(repo_files, call.path,
                                ClientContent(call.content, call.is_base64),
                                file_info.sha) :
       /\ log' = Append(log, Write(call.path, outcome, file_info.sha))
       /\ repo_files' = outcome.files
       /\ IF outcome.status \in {"200", "201"} THEN Return(Returned(<<>>))
          ELSE Again("get_file_sha", TRUE, None)
  /\ UNCHANGED <<mergeVars, renderVars, configVars, fnVars, other_writes,
                 exit_code, base64_content, file_info, call>>

ClientInit ==
  /\ MergeIdle
  /\ RenderIdle
  /\ GITHUB_TOKEN = DefaultToken
  /\ GITHUB_REPO = DefaultRepo
  /\ \E node \in ClientFiles : repo_files = StoreOf(Absent, node, Absent)
  /\ other_writes = 0
  /\ log = <<>>
  /\ pc = "idle"
  /\ exit_code = -1
  /\ base64_content = <<>>
  /\ file_info = NoInfo
  /\ ClientIdle
  /\ FnIdle

ClientNext ==
  \/ ClientCall
  \/ ClientTestConnection
  \/ ClientDownloadFile
  \/ ClientGetFileSha
  \/ ClientPut
  \/ OtherWriter

SpecClient == ClientInit /\ [][ClientNext]_vars

----------------------------------------------------------------------------
(* Functions called on their own: the arguments are drawn, then the function
   is applied to them *)

\* the call of function name on the drawn arguments returns value
Apply(name, value) ==
  /\ fn_name = "none"
  /\ fn_name' = name
  /\ fn_result' = value
  /\ fn_calls' = fn_calls + 1
  /\ UNCHANGED <<fn_args, node_counter, force_port_443, mergeVars, renderVars,
                 configVars, storeVars, procVars, clientVars>>

\* the state before a call with arguments drawn from the set Args
Drawn(Args) ==
  /\ MergeIdle
  /\ RenderIdle
  /\ NetworkIdle
  /\ ClientIdle
  /\ fn_name = "none"
  /\ fn_args \in Args
  /\ fn_result = <<>>
  /\ fn_calls = 0
  /\ node_counter = NoCounts
  /\ force_port_443 = FORCE_PORT_443

\* the texts between the dots of an address: octets in and out of range,
\* with a leading zero, with a letter, and empty
OctetPool ==
  { <<"7">>, <<"0", "1">>, <<"2", "5", "5">>, <<"2", "5", "6">>, <<"1", "a">>,
    <<>> }

MaxOctets == 5

\* the texts of up to MaxOctets such octets, joined by dots
IpTexts ==
  { Join(parts, ".") :
      parts \in UNION {[1..n -> OctetPool] : n \in 1..MaxOctets} }

IsValidIp == Apply("is_valid_ip", is_valid_ip(fn_args))

IpInit == Drawn(IpTexts)

IpNext == IsValidIp

SpecIp == IpInit /\ [][IpNext]_vars

----------------------------------------------------------------------------
(* The URI synthesizers: VlessGenerator.generate_from_ip_port, whose counter
   is a field of the generator, and VlessAutomation.generate_vless_nodes,
   whose counter is a local variable. One generator is called MaxCalls times *)

\* an ip of None, on which ip.split raises AttributeError
NoneIp == <<"None">>

Ip1234 == <<"1", ".", "2", ".", "3", ".", "4">>
Ip1256 == <<"1", ".", "2", ".", "5", ".", "6">>
Ip9999 == <<"9", ".", "9", ".", "9", ".", "9">>

\* the records of a call: two that share their first two octets, one that
\* does not, ports that are and are not 443, and a record without ip
RecordPool ==
  { [ip |-> Ip1234, port |-> 443], [ip |-> Ip1256, port |-> 8080],
    [ip |-> Ip9999, port |-> 443], [ip |-> NoneIp, port |-> 443] }

MaxRecords == 2
MaxCalls == 2

\* ".".join(ip.split(".")[:2])
IpPrefix(ip) ==
  LET parts == Split(ip, ".")
  IN IF Len(parts) >= 2 THEN parts[1] \o <<".">> \o parts[2] ELSE parts[1]

\* str(n).zfill(2)
ZFill(n) == IF n < 10 THEN <<"0">> \o NatText(n) ELSE NatText(n)

\* VlessGenerator._generate_remark: the counter after the call, and the remark
Counted(counter, ip) ==
  [ip_prefix \in DOMAIN counter \cup {IpPrefix(ip)} |->
     IF ip_prefix = IpPrefix(ip)
       THEN (IF ip_prefix \in DOMAIN counter THEN counter[ip_prefix] ELSE 0) + 1
       ELSE counter[ip_prefix]]

\* the f-string of _generate_remark under a value of config.REMARKS_PREFIX
Remark(prefix, counter, ip, port, today) ==
  prefix \o today \o <<"-">> \o ZFill(Counted(counter, ip)[IpPrefix(ip)])
    \o <<"-">> \o IntText(port) \o <<"-">> \o ip

generate_remark(counter, ip, port, today) ==
  Remark(REMARKS_PREFIX, counter, ip, port, today)

\* the loop of VlessGenerator.generate_from_ip_port from the counter that the
\* generator holds: the nodes returned and the counter cleared, or the
\* exception raised at a record without ip and the counter as it then is
RECURSIVE GenerateLoop(_, _, _, _, _)
GenerateLoop(counter, ip_port_pairs, nodes, today, force) ==
  LET Step(ip, port) ==
        IF ip = NoneIp
          THEN [result |-> Raised, node_counter |-> counter]
          ELSE GenerateLoop(Counted(counter, ip), Tail(ip_port_pairs),
                 Append(nodes, create_vless_link(ip, port,
                          generate_remark(counter, ip, port, today))),
                 today, force)
  IN IF ip_port_pairs = <<>>
       THEN [result |-> Returned(nodes), node_counter |-> NoCounts]
       ELSE Step(Head(ip_port_pairs).ip,
                 final_port(force, Head(ip_port_pairs).port))

generate_from_ip_port(counter, ip_port_pairs, today, force) ==
  GenerateLoop(counter, ip_port_pairs, <<>>, today, force)

\* a call of the function name with the records drawn has the outcome out
SynthCall(name, ip_port_pairs, out) ==
  /\ fn_calls < MaxCalls
  /\ fn_name' = name
  /\ fn_args' = ip_port_pairs
  /\ fn_result' = out.result
  /\ node_counter' = out.node_counter
  /\ fn_calls' = fn_calls + 1
  /\ UNCHANGED <<force_port_443, mergeVars, renderVars, configVars, storeVars,
                 procVars, clientVars>>

GenerateFromIpPort ==
  \E ip_port_pairs \in SeqsUpTo(RecordPool, MaxRecords) :
    SynthCall("generate_from_ip_port", ip_port_pairs,
              generate_from_ip_port(node_counter, ip_port_pairs,
                                    TodayOf(Now), force_port_443))

\* VlessAutomation.generate_vless_nodes: ip.split raises at a record without
\* ip; node_counter is a local variable, and the field is not touched
GenerateVlessNodes ==
  \E ip_port_pairs \in SeqsUpTo(RecordPool, MaxRecords) :
    SynthCall("generate_vless_nodes", ip_port_pairs,
              [result |->
                 IF \E k \in DOMAIN ip_port_pairs : ip_port_pairs[k].ip = NoneIp
                   THEN Raised
                   ELSE Returned(GenerateNodes(ip_port_pairs, TodayOf(Now),
                                               force_port_443)),
               node_counter |-> node_counter])

SynthInit ==
  /\ MergeIdle
  /\ RenderIdle
  /\ NetworkIdle
  /\ ClientIdle
  /\ fn_name = "none"
  /\ fn_args = <<>>
  /\ fn_result = Raised
  /\ fn_calls = 0
  /\ node_counter = NoCounts
  /\ force_port_443 \in BOOLEAN

SynthNext ==
  \/ GenerateFromIpPort
  \/ GenerateVlessNodes

SpecSynth == SynthInit /\ [][SynthNext]_vars

----------------------------------------------------------------------------
(* Claims about merge, checked under SpecMerge *)

AllNodes == local_nodes \o remote_nodes

\* what the loops deduplicate a node by: its key, or the node itself
DedupId(node) == IF ExtractKey(node) # NoKey THEN ExtractKey(node) ELSE node

\* the index in AllNodes of the first node equal to unique_nodes[i]
FirstPos(i) == Least({k \in 1..Len(AllNodes) : AllNodes[k] = unique_nodes[i]})

HasKeyIn(nodes, key) == \E i \in 1..Len(nodes) : ExtractKey(nodes[i]) = key

\* C3: after merge(A, B), by either merge implementation, no two nodes of the
\* result carry the same extracted (host, port) key.
C3_NoDuplicateKey ==
  merged_by # "none" =>
    \A i, j \in 1..Len(unique_nodes) :
      (i # j /\ ExtractKey(unique_nodes[i]) # NoKey)
        => ExtractKey(unique_nodes[i]) # ExtractKey(unique_nodes[j])

\* a merge has run on inputs that repeat a key, across A and B and inside B,
\* and kept other nodes besides
C3_Witness ==
  /\ merged_by = "main"
  /\ local_nodes = <<NodeA2, NodeA80>>
  /\ remote_nodes = <<NodeA, NodeAt2>>
  /\ unique_nodes = <<NodeA2, NodeA80>>

\* C4: for every key that occurs in both A and B the node of the result with
\* that key is the first node of A with that key; the result lists nodes in
\* the order in which A followed by B first shows them, each being the first
\* node with its key, so every surviving node of A precedes those of B.
C4_NewWinsInOrder ==
  merged_by # "none" =>
    /\ \A a \in 1..Len(local_nodes) :
         LET key == ExtractKey(local_nodes[a])
         IN (key # NoKey /\ HasKeyIn(remote_nodes, key)) =>
              \E i \in 1..Len(unique_nodes) :
                /\ ExtractKey(unique_nodes[i]) = key
                /\ unique_nodes[i] =
                     local_nodes[Least({k \in 1..Len(local_nodes) :
                                          ExtractKey(local_nodes[k]) = key})]
    /\ \A i \in 1..Len(unique_nodes) :
         /\ \E k \in 1..Len(AllNodes) : AllNodes[k] = unique_nodes[i]
         /\ \A k \in 1..(FirstPos(i) - 1) :
              DedupId(AllNodes[k]) # DedupId(unique_nodes[i])
    /\ \A i, j \in 1..Len(unique_nodes) :
         i < j =>
           /\ FirstPos(i) < FirstPos(j)
           /\ (FirstPos(j) <= Len(local_nodes) => FirstPos(i) <= Len(local_nodes))

\* the key of NodeA is in A (twice) and in B; the first node of A with it
\* survives, followed by a node that only B has
C4_Witness ==
  /\ merged_by = "main"
  /\ local_nodes = <<NodeA2, NodeA>>
  /\ remote_nodes = <<NodeA, NodeA80>>
  /\ unique_nodes = <<NodeA2, NodeA80>>

\* C5: a node from which no key can be extracted is never dropped by merge:
\* it is in the result exactly once.
C5_KeylessNeverDropped ==
  merged_by # "none" =>
    \A k \in 1..Len(AllNodes) :
      ExtractKey(AllNodes[k]) = NoKey =>
        Cardinality({i \in 1..Len(unique_nodes) : unique_nodes[i] = AllNodes[k]}) = 1

----------------------------------------------------------------------------
(* Claims about the renderer, checked under SpecRender *)

\* the scalar a YAML reader takes from text: the inside of a double-quoted
\* text with \" and \\ unescaped, any other text as it stands
RECURSIVE Unescape(_)
Unescape(text) ==
  IF text = <<>> THEN <<>>
  ELSE IF text[1] = "\\" /\ Len(text) >= 2 /\ text[2] \in {"\"", "\\"}
    THEN <<text[2]>> \o Unescape(SubSeq(text, 3, Len(text)))
    ELSE <<text[1]>> \o Unescape(Tail(text))

YamlScalar(text) ==
  IF Len(text) >= 2 /\ text[1] = "\"" /\ text[Len(text)] = "\""
    THEN Unescape(SubSeq(text, 2, Len(text) - 1))
    ELSE text

\* the indices of the lines of doc strictly between the first line equal to
\* from and the first line equal to to after it
SectionLines(doc, from, to) ==
  IF \E i \in 1..Len(doc) : doc[i] = from
    THEN LET f == Least({i \in 1..Len(doc) : doc[i] = from})
             ends == {i \in (f + 1)..Len(doc) : doc[i] = to}
             e == IF ends = {} THEN Len(doc) + 1 ELSE Least(ends)
         IN (f + 1)..(e - 1)
    ELSE {}

ProxiesKey == <<"p","r","o","x","i","e","s",":">>
GroupsKey == <<"p","r","o","x","y","-","g","r","o","u","p","s",":">>
EntryNamePrefix == <<" "," ","-"," ","n","a","m","e",":"," ">>
MemberPrefix == <<" "," "," "," "," "," ","-"," ">>

\* the names of the entries of the top-level node list of the document
EntryNames(doc) ==
  { YamlScalar(SubSeq(doc[i], Len(EntryNamePrefix) + 1, Len(doc[i]))) :
      i \in {k \in SectionLines(doc, ProxiesKey, GroupsKey) :
               StartsWith(doc[k], EntryNamePrefix)} }

\* the member names of the select group and of the url-test group: the list
\* items between `proxy-groups:` and the head of the third group
GroupMembers(doc) ==
  { YamlScalar(SubSeq(doc[i], Len(MemberPrefix) + 1, Len(doc[i]))) :
      i \in {k \in SectionLines(doc, GroupsKey, TemplateTail[1]) :
               StartsWith(doc[k], MemberPrefix)} }

\* C1: every member name listed in a selection group of the rendered
\* document is the name of an entry of the document's top-level node list.
C1_MembersAreEntries ==
  rendered => GroupMembers(yaml_content) \subseteq EntryNames(yaml_content)

\* the indices of the lines of the top-level node list that open an entry
EntryLines(doc) ==
  {k \in SectionLines(doc, ProxiesKey, GroupsKey) :
     StartsWith(doc[k], EntryNamePrefix)}

ServerPrefix == <<" "," "," "," ","s","e","r","v","e","r",":"," ">>

\* the servers of the entries of the top-level node list
EntryServers(doc) ==
  { YamlScalar(SubSeq(doc[i], Len(ServerPrefix) + 1, Len(doc[i]))) :
      i \in {k \in SectionLines(doc, ProxiesKey, GroupsKey) :
               StartsWith(doc[k], ServerPrefix)} }

\* the text of a URI between its first '@' and the '?' after it
Authority(url) ==
  LET Cut(rest) == IF HasChar(rest, "?") THEN Before(rest, IndexOf(rest, "?"))
                   ELSE rest
  IN Cut(After(url, IndexOf(url, "@")))

\* a node URI that fails to parse: not a vless:// URI, no '@', no host:port,
\* or a port that is no number
FailsToParse(url) ==
  \/ ~StartsWith(url, VlessScheme)
  \/ ~HasChar(url, "@")
  \/ ~HasChar(Authority(url), ":")
  \/ ~IsIntText(After(Authority(url), LastIndexOf(Authority(url), ":")))

\* C17: a node that fails to parse contributes no entry and no group member,
\* and every node of the same input that parses contributes its entry: the
\* document holds one entry for each node that parses, at that node's host.
C17_UnparseableNodeIsSkipped ==
  rendered =>
    LET Parsed == {i \in DOMAIN render_nodes : ~FailsToParse(render_nodes[i])}
        Label(i) == Unquote(After(render_nodes[i],
                                  IndexOf(render_nodes[i], "#")))
        Server(i) == Before(Authority(render_nodes[i]),
                            LastIndexOf(Authority(render_nodes[i]), ":"))
    IN /\ Cardinality(EntryLines(yaml_content)) = Cardinality(Parsed)
       /\ EntryServers(yaml_content) = {Server(i) : i \in Parsed}
       /\ \A i \in DOMAIN render_nodes \ Parsed :
            Label(i) \notin GroupMembers(yaml_content)

\* the label of a proxy_info after sanitization: the non-printable
\* characters stripped and the structural symbols removed
Sanitized(name) == Strip(Without(Without(name, NonPrintable), UnsafeNameChars))

\* C18: every entry of the rendered document has a non-empty name, and a node
\* whose label sanitization leaves empty is named by the fallback built from
\* its host and port.
C18_EveryEntryIsNamed ==
  rendered =>
    /\ \A name \in EntryNames(yaml_content) : name # <<>>
    /\ \A i \in DOMAIN render_nodes :
         LET Named(proxy_info) ==
               (proxy_info.ok /\ Sanitized(proxy_info.name) = <<>>) =>
                 FallbackName(proxy_info.server, proxy_info.port)
                   \in EntryNames(yaml_content)
         IN Named(parse_vless_url(render_nodes[i]))

----------------------------------------------------------------------------
(* Claims about a run, checked under SpecRun *)

\* the index in the log of the first GET of path, 0 when there is none
FirstGet(path) ==
  LET gets == {i \in DOMAIN log : log[i].method = "GET" /\ log[i].path = path}
  IN IF gets = {} THEN 0 ELSE Least(gets)

\* C2: every write of a published file that the store accepts supplied the
\* revision token that the run's first read of that file returned, so that a
\* write made by another writer after that read is never overwritten.
C2_WriteSuppliesTokenReadAtStart ==
  \A i \in DOMAIN log :
    (log[i].method = "PUT" /\ log[i].status \in {"200", "201"}) =>
      /\ FirstGet(log[i].path) # 0
      /\ log[FirstGet(log[i].path)].status \in {"200", "404"} =>
           log[i].sha = log[FirstGet(log[i].path)].sha

\* C7: when the read of the published node list is answered with 404, the
\* prior state is the empty list, the run goes on to merge and publish, and
\* it fails only if a later write fails.
C7_NotFoundIsEmptyPriorState ==
  (FirstGet(OUTPUT_NODE_FILE) # 0
     /\ log[FirstGet(OUTPUT_NODE_FILE)].status = "404") =>
    /\ remote_nodes = <<>>
    /\ unique_nodes = merge_nodes(local_nodes, <<>>)
    /\ pc # "download_remote"
    /\ (pc = "done" /\ exit_code # 0) => log[Len(log)].method = "PUT"

\* a run that found no published list, and has published the new nodes
C7_Witness ==
  /\ FirstGet(OUTPUT_NODE_FILE) # 0
  /\ log[FirstGet(OUTPUT_NODE_FILE)].status = "404"
  /\ pc = "done"
  /\ exit_code = 0
  /\ unique_nodes # <<>>
  /\ repo_files[OUTPUT_NODE_FILE] = File(base64_content)
  /\ repo_files[OUTPUT_YAML_FILE] = File(yaml_content)

\* owner/name: one slash, with a name on either side
IsOwnerName(repo) ==
  LET parts == Split(repo, "/")
  IN Len(parts) = 2 /\ parts[1] # <<>> /\ parts[2] # <<>>

\* C10: with no access token, or a repository identifier that is not of the
\* form owner/name, the run issues no request and its exit code is not 0.
C10_BadConfigNoRequest ==
  (GITHUB_TOKEN = <<>> \/ ~IsOwnerName(GITHUB_REPO)) =>
    /\ log = <<>>
    /\ pc = "done" => exit_code # 0

\* C11: when the read of the published node list fails for another reason
\* than not-found, the run ends with a non-zero exit code and writes nothing.
C11_FailedReadFailsRun ==
  (FirstGet(OUTPUT_NODE_FILE) # 0
     /\ log[FirstGet(OUTPUT_NODE_FILE)].status \in {"500", "timeout"}) =>
    /\ pc = "done"
    /\ exit_code # 0
    /\ \A i \in DOMAIN log : log[i].method # "PUT"

\* the statuses of a write that the store has accepted
Accepted == {"200", "201"}

\* whether, by the first n requests, the upload of content to path has
\* returned True: the last of these requests for the path is an accepted
\* PUT, or a lookup that found this very content stored
PublishedAt(path, content, n) ==
  LET on == {i \in 1..n : log[i].path = path}
      Last(i) ==
        \/ log[i].method = "PUT" /\ log[i].status \in Accepted
        \/ /\ log[i].method = "GET"
           /\ log[i].status = "200"
           /\ log[i].sha = Sha(UploadContent(path, content))
  IN on # {} /\ Last(CHOOSE i \in on : \A k \in on : k <= i)

\* the run has ended on a failed write of the YAML file
YamlPublishFailed ==
  /\ pc = "done"
  /\ log # <<>>
  /\ log[Len(log)].path = OUTPUT_YAML_FILE
  /\ log[Len(log)].method = "PUT"
  /\ log[Len(log)].status \notin Accepted

\* C12: the node list is written before the YAML document and its write is
\* accepted; the YAML document is written only after the upload of the node
\* list has succeeded; the run exits with 0 only if both uploads succeeded;
\* and when the YAML write fails after that, the run exits with a non-zero
\* code and the node list it uploaded stays in place.
C12_NodeListThenConfig ==
  /\ \A i, j \in DOMAIN log :
       ( /\ log[i].method = "PUT" /\ log[i].path = OUTPUT_NODE_FILE
         /\ log[j].method = "PUT" /\ log[j].path = OUTPUT_YAML_FILE ) =>
         i < j /\ log[i].status \in Accepted
  /\ \A j \in DOMAIN log :
       (log[j].method = "PUT" /\ log[j].path = OUTPUT_YAML_FILE) =>
         PublishedAt(OUTPUT_NODE_FILE, base64_content, j - 1)
  /\ (pc = "done" /\ exit_code = 0) =>
       /\ PublishedAt(OUTPUT_NODE_FILE, base64_content, Len(log))
       /\ PublishedAt(OUTPUT_YAML_FILE, yaml_content, Len(log))
  /\ YamlPublishFailed =>
       /\ exit_code # 0
       /\ other_writes = 0 =>
            repo_files[OUTPUT_NODE_FILE]
              = File(UploadContent(OUTPUT_NODE_FILE, base64_content))

\* a run that updated the node list and then failed to write the YAML file
C12_Witness ==
  /\ YamlPublishFailed
  /\ exit_code = 1
  /\ unique_nodes # <<>>
  /\ \E i \in DOMAIN log :
       /\ log[i].method = "PUT"
       /\ log[i].path = OUTPUT_NODE_FILE
       /\ log[i].status \in Accepted
  /\ repo_files[OUTPUT_NODE_FILE]
       = File(UploadContent(OUTPUT_NODE_FILE, base64_content))

\* C25: while the store is as a run ending in success left it the same day,
\* at the moment of the run or a second before it, the CSV unchanged, no
\* other writer active and no request failed, the run issues no write.
C25_SecondRunWritesNothing ==
  [][(/\ repo_files = LeftByEarlierRun
      /\ other_writes = 0
      /\ \A i \in DOMAIN log : log[i].status \notin Failures) =>
       ~(Len(log') > Len(log) /\ log'[Len(log')].method = "PUT")]_vars

----------------------------------------------------------------------------
(* Claims about GitHubClient, checked under SpecClient *)

\* the step issues a PUT
IssuesPut ==
  /\ Len(log') = Len(log) + 1
  /\ log'[Len(log')].method = "PUT"

\* the file that the upload called for would leave at its path
UploadedFile == File(ClientContent(call.content, call.is_base64).decoded)

\* C6: an upload whose content is identical to the content stored at its
\* path issues no PUT.
C6_IdenticalContentNoPut ==
  [][(IssuesPut /\ ClientContent(call.content, call.is_base64).valid)
       => repo_files[call.path] # UploadedFile]_vars

\* C8: after a write is rejected with 409 or 422 the operation has returned
\* failure, and the client issues no further request for that file.
C8_RejectedWriteNotRetried ==
  \A i \in DOMAIN log :
    (log[i].method = "PUT" /\ log[i].status \in {"409", "422"}) =>
      /\ i = Len(log)
      /\ pc = "returned"
      /\ ~result.ok

\* the request that the operation called is about: the PUT of an upload, the
\* GET of a download or of the connection test
OwnRequest(i) ==
  log[i].method = (IF call.op = "upload_file" THEN "PUT" ELSE "GET")

\* C9: after a request of an operation is answered with 401, 403 or 404, the
\* operation has returned and has issued no further request.
C9_ClientErrorNotRetried ==
  \A i \in DOMAIN log :
    (OwnRequest(i) /\ log[i].status \in {"401", "403", "404"}) =>
      /\ i = Len(log)
      /\ pc = "returned"

----------------------------------------------------------------------------
(* The round trip of one link: _generate_vless_link under a configuration,
   then YamlGenerator._parse_vless_url *)

\* values of the environment variable UUID, which config.py reads unchecked
UuidPool ==
  {UUID, <<"u","s","e","r","@","h","o","m","e">>, <<"a","?","b">>,
   <<"a",":","b">>}

PortPool == {80, 443, 2053, 8080}

LinkArgs ==
  [uuid : UuidPool, ip : {Ip1234, Ip1256, Ip9999}, port : PortPool,
   force : BOOLEAN]

\* the link of the record fn_args under the configuration fn_args
LinkOf(args) ==
  VlessLink(args.uuid, args.ip, final_port(args.force, args.port),
            generate_remark(NoCounts, args.ip,
                            final_port(args.force, args.port), TodayOf(Now)))

ParseLink == Apply("_parse_vless_url", parse_vless_url(LinkOf(fn_args)))

LinkInit == Drawn(LinkArgs)

LinkNext == ParseLink

SpecLink == LinkInit /\ [][LinkNext]_vars

----------------------------------------------------------------------------
(* The readers of the published node list, each applied to the content of
   the file: VlessAutomation.run, GitHubClient.download_remote_nodes and the
   main of simple_main.py *)

\* run, lines 382-407: no content is no node
run_remote_nodes(remote_content) ==
  IF remote_content = <<>> THEN <<>> ELSE decode_remote_nodes(remote_content)

\* GitHubClient.download_remote_nodes after download_file: the raw fallback
\* keeps the lines that start with vless:// before they are stripped
download_remote_nodes(content) ==
  LET IsVless(node) == StartsWith(node, VlessScheme)
      RawLine(line) == Strip(line) # <<>> /\ IsVless(line)
      RawLines(kept) == [k \in 1..Len(kept) |-> Strip(kept[k])]
      Double(first_decode, second_decode) ==
        NonBlankLines(IF second_decode.ok THEN second_decode.value
                      ELSE first_decode.value)
      Single(first_decode) ==
        IF first_decode.ok
          THEN Double(first_decode, b64decode_text(first_decode.value))
          ELSE RawLines(SelectSeq(Split(content, "\n"), RawLine))
  IN IF content = <<>> THEN <<>>
     ELSE SelectSeq(Single(b64decode_text(content)), IsVless)

\* simple_main.py lines 128-137: decoded is the content of the file, decoded
\* once more where that succeeds
simple_remote_nodes(decoded) ==
  LET IsVless(node) == StartsWith(node, VlessScheme)
      Lines(decoded2) ==
        NonBlankLines(IF decoded2.ok THEN decoded2.value ELSE decoded)
  IN SelectSeq(Lines(b64decode_text(decoded)), IsVless)

\* the three forms in which a node list is published: the nodes joined by
\* line breaks, that text encoded (create_base64), and the encoding encoded
\* once more (VlessGenerator.create_double_base64)
Forms == {"raw", "single", "double"}

Published(nodes, form) ==
  LET plain_text == Join(nodes, "\n")
  IN IF form = "raw" THEN plain_text
     ELSE IF form = "single" THEN create_base64(plain_text)
     ELSE create_base64(create_base64(plain_text))

MaxPublished == 2

PublishedLists == SeqsUpTo({NodeA, NodeA2, NodeDom}, MaxPublished)

RunReads ==
  Apply("run", run_remote_nodes(Published(fn_args.nodes, fn_args.form)))

ClientReads ==
  Apply("download_remote_nodes",
        download_remote_nodes(Published(fn_args.nodes, fn_args.form)))

SimpleMainReads ==
  Apply("simple_main",
        simple_remote_nodes(Published(fn_args.nodes, fn_args.form)))

DecodeInit == Drawn([nodes : PublishedLists, form : Forms])

DecodeNext == RunReads \/ ClientReads \/ SimpleMainReads

SpecDecode == DecodeInit /\ [][DecodeNext]_vars

----------------------------------------------------------------------------
(* NodeManager.filter_nodes_by_age and _extract_date_from_node
   (utils/node_manager.py); a datetime is its year, month and day, and the
   time of day of datetime.now() is midnight or later *)

MAX_DAYS_TO_KEEP == 10

\* the result None of _extract_date_from_node
NoDate == [year |-> 0, month |-> 0, day |-> 0]

IsLeap(year) == (year % 4 = 0 /\ year % 100 # 0) \/ year % 400 = 0

DaysIn(year, month) ==
  IF month = 2 THEN (IF IsLeap(year) THEN 29 ELSE 28)
  ELSE IF month \in {4, 6, 9, 11} THEN 30 ELSE 31

\* datetime(year, month, day) does not raise ValueError
IsDate(year, month, day) ==
  /\ year \in 1..9999
  /\ month \in 1..12
  /\ day \in 1..DaysIn(year, month)

RECURSIVE DaysBeforeMonth(_, _)
DaysBeforeMonth(year, month) ==
  IF month = 1 THEN 0
  ELSE DaysBeforeMonth(year, month - 1) + DaysIn(year, month - 1)

\* date.toordinal(): the number of the day, counted from 0001-01-01
Ordinal(date) ==
  LET y == date.year - 1
  IN (365 * y) + (y \div 4) - (y \div 100) + (y \div 400)
       + DaysBeforeMonth(date.year, date.month) + date.day

\* re.search(r'U+81EAU+9009(\d{2})(\d{2})', node): the index of the leftmost
\* match, 0 when there is none
SelfPickMatch(node) ==
  LET at == {i \in 1..(Len(node) - 5) :
               /\ node[i] = "U+81EA"
               /\ node[i + 1] = "U+9009"
               /\ \A k \in 2..5 : node[i + k] \in Digits}
  IN IF at = {} THEN 0 ELSE Least(at)

\* re.search(r'(\d{4})[-_](\d{2})[-_](\d{2})', node), likewise
IsoMatch(node) ==
  LET at == {i \in 1..(Len(node) - 9) :
               /\ \A k \in {0, 1, 2, 3, 5, 6, 8, 9} : node[i + k] \in Digits
               /\ node[i + 4] \in {"-", "_"}
               /\ node[i + 7] \in {"-", "_"}}
  IN IF at = {} THEN 0 ELSE Least(at)

\* _extract_date_from_node at the moment now: the month and day after the
\* two characters, in the year of now or the year before; where that is no
\* date or no match, the year, month and day of the second pattern; else None
extract_date_from_node(node, now) ==
  LET Iso(i) ==
        IF i = 0 THEN NoDate
        ELSE LET year == DigitsVal(SubSeq(node, i, i + 3))
                 month == DigitsVal(SubSeq(node, i + 5, i + 6))
                 day == DigitsVal(SubSeq(node, i + 8, i + 9))
             IN IF IsDate(year, month, day)
                  THEN [year |-> year, month |-> month, day |-> day]
                  ELSE NoDate
      SelfPick(i) ==
        IF i = 0 THEN Iso(IsoMatch(node))
        ELSE LET month == DigitsVal(SubSeq(node, i + 2, i + 3))
                 day == DigitsVal(SubSeq(node, i + 4, i + 5))
                 year == IF month > now.month THEN now.year - 1 ELSE now.year
             IN IF IsDate(year, month, day)
                  THEN [year |-> year, month |-> month, day |-> day]
                  ELSE Iso(IsoMatch(node))
  IN SelfPick(SelfPickMatch(node))

\* node_date >= datetime.now() - timedelta(days=MAX_DAYS_TO_KEEP), for a
\* node_date at midnight
NotBefore(node_date, now, days) ==
  Ordinal(node_date) >=
    Ordinal(now) - days + (IF now.after_midnight THEN 1 ELSE 0)

NotBeforeCutoff(node_date, now) == NotBefore(node_date, now, MAX_DAYS_TO_KEEP)

\* NodeManager.filter_nodes_by_age under values of AUTO_DELETE_OLD_NODES and
\* of MAX_DAYS_TO_KEEP
FilterByAge(nodes, now, auto_delete, days) ==
  LET Kept(node) ==
        LET Keeps(node_date) ==
              \/ node_date # NoDate /\ NotBefore(node_date, now, days)
              \/ node_date = NoDate
        IN Keeps(extract_date_from_node(node, now))
  IN IF ~auto_delete THEN nodes ELSE SelectSeq(nodes, Kept)

filter_nodes_by_age(nodes, now, auto_delete) ==
  FilterByAge(nodes, now, auto_delete, MAX_DAYS_TO_KEEP)

\* vless://u@h:1#2020-01-01 and vless://u@h:1#2026-11-01
AgedIsoOld == VlessScheme \o <<"u","@","h",":","1","#","2","0","2","0","-","0","1","-","0","1">>
AgedIsoNew == VlessScheme \o <<"u","@","h",":","1","#","2","0","2","6","-","1","1","-","0","1">>
\* labels of the two characters and a month and day: 1101, 1201 and 1345
AgedPick1101 == VlessScheme \o <<"u","@","h",":","1","#","U+81EA","U+9009","1","1","0","1">>
AgedPick1201 == VlessScheme \o <<"u","@","h",":","1","#","U+81EA","U+9009","1","2","0","1">>
AgedPick1345 == VlessScheme \o <<"u","@","h",":","1","#","U+81EA","U+9009","1","3","4","5">>
\* a date in the host parameter, none in the label:
\* vless://u@h:1?host=2020-01-01.x#a
AgedHost == VlessScheme \o <<"u","@","h",":","1","?","h","o","s","t","=","2","0","2","0","-","0","1","-","0","1",".","x","#","a">>

AgedPool ==
  {NodeA, AgedIsoOld, AgedIsoNew, AgedPick1101, AgedPick1201, AgedPick1345,
   AgedHost}

MaxAged == 2

\* datetime.now(): the 4th and the 11th of January and of November 2026, at
\* midnight and later
Clocks ==
  [year : {2026}, month : {1, 11}, day : {4, 11}, after_midnight : BOOLEAN]

FilterNodesByAge ==
  Apply("filter_nodes_by_age",
        filter_nodes_by_age(fn_args.nodes, fn_args.now, fn_args.auto_delete))

AgeInit ==
  Drawn([nodes : SeqsUpTo(AgedPool, MaxAged), now : Clocks,
         auto_delete : BOOLEAN])

AgeNext == FilterNodesByAge

SpecAge == AgeInit /\ [][AgeNext]_vars

----------------------------------------------------------------------------
(* A node synthesized on one day and filtered on another:
   VlessGenerator._generate_remark and _generate_vless_link, then
   NodeManager.filter_nodes_by_age *)

\* values of REMARKS_PREFIX: the default, and the two characters of the
\* pattern of _extract_date_from_node
PrefixPool == {REMARKS_PREFIX, <<"U+81EA","U+9009">>}

\* values of MAX_DAYS_TO_KEEP
WindowPool == {1, MAX_DAYS_TO_KEEP}

\* the days on which the node was synthesized
CreatedPool ==
  {[month |-> 10, day |-> 1], [month |-> 1, day |-> 4],
   [month |-> 11, day |-> 4], [month |-> 11, day |-> 11]}

\* strftime("%m%d")
MonthDay(date) == ZFill(date.month) \o ZFill(date.day)

SynthArgs ==
  [ip : {Ip1234}, port : {443, 2053, 8080}, force : BOOLEAN,
   prefix : PrefixPool, created : CreatedPool, now : Clocks,
   days : WindowPool, auto_delete : BOOLEAN]

\* the node of the record of args, first of its prefix, on the day created
SynthesizedNode(args) ==
  LET Link(port) ==
        VlessLink(UUID, args.ip, port,
                  Remark(args.prefix, NoCounts, args.ip, port,
                         MonthDay(args.created)))
  IN Link(final_port(args.force, args.port))

FilterSynthesized ==
  Apply("filter_synthesized",
        FilterByAge(<<SynthesizedNode(fn_args)>>, fn_args.now,
                    fn_args.auto_delete, fn_args.days))

KeepInit == Drawn(SynthArgs)

KeepNext == FilterSynthesized

SpecKeep == KeepInit /\ [][KeepNext]_vars

----------------------------------------------------------------------------
(* CSVProcessor.parse_csv called on texts written from records *)

CsvRecords ==
  [ip : {Ip1234, Ip1256}, port : {443, 8080, 65535}]

MaxRows == 2

\* the ways a text is written from records: one row host,port per record;
\* the same under a header row; host:port, host;port and host port rows; the
\* hosts alone; and a text of white space only
Shapes == {"comma", "header", "colon", "semicolon", "space", "bare", "blank"}

RECURSIVE WrittenRows(_, _)
WrittenRows(records, separator) ==
  IF records = <<>> THEN <<>>
  ELSE (IF separator = <<>> THEN Head(records).ip
        ELSE Head(records).ip \o separator \o IntText(Head(records).port))
       \o <<"\n">> \o WrittenRows(Tail(records), separator)

Written(records, shape) ==
  IF shape = "comma" THEN WrittenRows(records, <<",">>)
  ELSE IF shape = "header"
    THEN <<"i","p",",","p","o","r","t","\n">> \o WrittenRows(records, <<",">>)
  ELSE IF shape = "colon" THEN WrittenRows(records, <<":">>)
  ELSE IF shape = "semicolon" THEN WrittenRows(records, <<";">>)
  ELSE IF shape = "space" THEN WrittenRows(records, <<" ">>)
  ELSE IF shape = "bare" THEN WrittenRows(records, <<>>)
  ELSE [k \in 1..Len(records) |-> IF k % 2 = 1 THEN " " ELSE "\n"]

ParseCsv ==
  Apply("parse_csv", parse_csv(Written(fn_args.records, fn_args.shape)))

CsvInit ==
  Drawn([records : SeqsUpTo(CsvRecords, MaxRows), shape : Shapes])

CsvNext == ParseCsv

SpecCsv == CsvInit /\ [][CsvNext]_vars

----------------------------------------------------------------------------
(* The writers of the published node list: the `content` field each sends
   in its PUT for a node list, and the bytes the store keeps for it *)

\* the store keeps the bytes that the `content` field is the base64 of
StoredBytes(content_field) == b64decode(content_field).value

\* run and VlessAutomation.upload_file: base64_content, encoded at line 155
RunField(unique_nodes_) ==
  create_base64(UploadContent(OUTPUT_NODE_FILE,
                              create_base64(Join(unique_nodes_, "\n"))))

\* simple_main.py lines 160-174: second_base64
SimpleMainField(unique_nodes_) ==
  create_base64(create_base64(Join(unique_nodes_, "\n")))

\* a mutant of the field of GitHubClient.upload_file: encoded in every case
ClientFieldEncoded(content, is_base64) == create_base64(content)

\* GitHubClient.upload_file, step 2: encoded_content
ClientField(content, is_base64) ==
  IF is_base64 THEN content ELSE create_base64(content)

\* upload_file(path, create_double_base64(plain_text), message), is_base64
\* left at its default True
ClientDoubleField(nodes) ==
  ClientField(Published(nodes, "double"), TRUE)

WrittenLists ==
  SeqsUpTo({NodeA, NodeA2, NodeA80, NodeDom, NodeDom2}, MaxPublished)

RunWrites == Apply("run", StoredBytes(RunField(fn_args)))

SimpleMainWrites == Apply("simple_main", StoredBytes(SimpleMainField(fn_args)))

ClientWrites == Apply("upload_file", StoredBytes(ClientDoubleField(fn_args)))

WriteInit == Drawn(WrittenLists)

WriteNext == RunWrites \/ SimpleMainWrites \/ ClientWrites

SpecWrite == WriteInit /\ [][WriteNext]_vars

----------------------------------------------------------------------------
(* Claims about CSVProcessor._is_valid_ip, checked under SpecIp *)

\* a decimal octet in 0..255 without a leading zero, "0" itself allowed
IsOctet(part) ==
  /\ part # <<>>
  /\ \A i \in 1..Len(part) : part[i] \in Digits
  /\ Len(part) <= 3
  /\ DigitsVal(part) <= 255
  /\ Len(part) > 1 => part[1] # "0"

\* four such octets separated by dots
IsDottedQuad(ip) ==
  LET parts == Split(ip, ".")
  IN Len(parts) = 4 /\ \A k \in 1..4 : IsOctet(parts[k])

\* C13: the validator accepts a text exactly when it is four dot-separated
\* decimal octets in 0..255, none with a leading zero.
C13_AcceptsExactlyDottedQuads ==
  fn_name = "is_valid_ip" => (fn_result <=> IsDottedQuad(fn_args))

----------------------------------------------------------------------------
(* Claims about the URI synthesizers, checked under SpecSynth *)

\* the label of a node: the text after '#', unquoted, between its dashes
LabelParts(node) == Split(Unquote(After(node, IndexOf(node, "#"))), "-")

\* the sequence number, the port and the host of a label
\* {prefix}{MMDD}-{seq}-{port}-{host}
LabelSequence(node) == LabelParts(node)[Len(LabelParts(node)) - 2]
LabelPort(node) == LabelParts(node)[Len(LabelParts(node)) - 1]
LabelHost(node) == LabelParts(node)[Len(LabelParts(node))]

\* how many of the first k records share the first two octets of the k-th
RankInPrefix(records, k) ==
  Cardinality({j \in 1..k : IpPrefix(records[j].ip) = IpPrefix(records[k].ip)})

\* a call has returned nodes
SynthReturned == fn_calls > 0 /\ fn_result.ok

\* C14: in every call that returns, the k-th record among those sharing its
\* first two octets is labelled with sequence number k, whatever an earlier
\* call on the same generator did.
C14_SequenceRestartsPerCall ==
  SynthReturned =>
    \A k \in DOMAIN fn_args :
      LabelSequence(fn_result.value[k]) = ZFill(RankInPrefix(fn_args, k))

\* the port that the policy of the generator gives the k-th record
EffectivePort(k) == IF force_port_443 THEN 443 ELSE fn_args[k].port

\* C15: the port in every synthesized URI, and in its label, is 443 when
\* FORCE_PORT_443 is set and the port of the record when it is not.
C15_EffectivePort ==
  SynthReturned =>
    \A k \in DOMAIN fn_args :
      /\ parse_vless_url(fn_result.value[k]).port = EffectivePort(k)
      /\ LabelPort(fn_result.value[k]) = IntText(EffectivePort(k))

\* under the policy a record with another port has been given port 443
C15_Witness ==
  /\ SynthReturned
  /\ force_port_443
  /\ \E k \in DOMAIN fn_args :
       /\ fn_args[k].port # 443
       /\ parse_vless_url(fn_result.value[k]).port = 443

----------------------------------------------------------------------------
(* Claims about the round trip of a link, checked under SpecLink *)

\* C16: for every record and configuration, the link synthesized parses,
\* with the render parser, to the address of the record, the effective port
\* and the configured UUID.
C16_RoundTrip ==
  fn_name = "_parse_vless_url" =>
    /\ fn_result.ok
    /\ fn_result.server = fn_args.ip
    /\ fn_result.port = final_port(fn_args.force, fn_args.port)
    /\ fn_result.uuid = fn_args.uuid

----------------------------------------------------------------------------
(* Claims about the readers of the published list, checked under SpecDecode *)

\* C19: a node list published double-encoded, single-encoded or as raw text
\* is read back, by each reader, as the sequence of its node URIs.
C19_EveryFormIsRecovered ==
  fn_name \in {"run", "download_remote_nodes", "simple_main"} =>
    fn_result = fn_args.nodes

----------------------------------------------------------------------------
(* Claims about NodeManager.filter_nodes_by_age, checked under SpecAge *)

\* the label of a node URI: the text after its '#'
LabelOf(node) ==
  IF HasChar(node, "#") THEN After(node, IndexOf(node, "#")) ELSE <<>>

\* the sequence sub is the sequence full with some of its members left out
RECURSIVE IsSubsequence(_, _)
IsSubsequence(sub, full) ==
  IF sub = <<>> THEN TRUE
  ELSE IF full = <<>> THEN FALSE
  ELSE IF Head(sub) = Head(full) THEN IsSubsequence(Tail(sub), Tail(full))
  ELSE IsSubsequence(sub, Tail(full))

\* C20: every node of the input whose label parses to no date is in the
\* output of filter_nodes_by_age, and the output is a subsequence of the
\* input in the same order.
C20_UndatedNodesAreKept ==
  fn_name = "filter_nodes_by_age" =>
    /\ IsSubsequence(fn_result, fn_args.nodes)
    /\ \A k \in DOMAIN fn_args.nodes :
         extract_date_from_node(LabelOf(fn_args.nodes[k]), fn_args.now) = NoDate
           => \E j \in DOMAIN fn_result : fn_result[j] = fn_args.nodes[k]

----------------------------------------------------------------------------
(* Claims about synthesized nodes under the age filter, checked under
   SpecKeep *)

\* the date that the label of the synthesized node stands for at the moment
\* now: the year of now, or the year before when the month exceeds now's
CreatedDate(args) ==
  [year |-> IF args.created.month > args.now.month THEN args.now.year - 1
            ELSE args.now.year,
   month |-> args.created.month,
   day |-> args.created.day]

\* C21: with age filtering enabled and a window of W days, a synthesized
\* node whose label date is older than now minus W days is dropped.
C21_OldNodesAreDropped ==
  (/\ fn_name = "filter_synthesized"
   /\ fn_args.auto_delete
   /\ ~NotBefore(CreatedDate(fn_args), fn_args.now, fn_args.days)) =>
    fn_result = <<>>

\* C29: a node synthesized today is kept by the age filter under every
\* window of at least one day, whatever its port and label prefix.
C29_TodaysNodeIsKept ==
  (/\ fn_name = "filter_synthesized"
   /\ fn_args.created.month = fn_args.now.month
   /\ fn_args.created.day = fn_args.now.day
   /\ fn_args.days >= 1) =>
    fn_result = <<SynthesizedNode(fn_args)>>

----------------------------------------------------------------------------
(* Claims about CSVProcessor.parse_csv, checked under SpecCsv *)

\* no two members of the sequence are equal
DuplicateFree(records) ==
  \A j, k \in DOMAIN records : j # k => records[j] # records[k]

\* C22: the text of one host,port row per record of a duplicate-free
\* sequence of records is parsed back to exactly that sequence.
C22_WrittenRecordsAreReadBack ==
  (/\ fn_name = "parse_csv"
   /\ fn_args.shape = "comma"
   /\ DuplicateFree(fn_args.records)) =>
    fn_result = fn_args.records

\* C22 witness: two records of one host with the ports 65535 and 443 have
\* been written and read back in that order
C22_Witness ==
  /\ fn_name = "parse_csv"
  /\ fn_args.shape = "comma"
  /\ fn_args.records = <<[ip |-> Ip1234, port |-> 65535],
                         [ip |-> Ip1234, port |-> 443]>>
  /\ fn_result = fn_args.records

\* C23: the records returned for any text hold no (host, port) twice, and a
\* text that is empty or white space only gives the empty list.
C23_NoRecordTwice ==
  fn_name = "parse_csv" =>
    /\ DuplicateFree(fn_result)
    /\ Strip(Written(fn_args.records, fn_args.shape)) = <<>> => fn_result = <<>>

\* C23 witness: a text with the same row twice has given one record, and a
\* text of white space has given none
C23_Witness ==
  /\ fn_name = "parse_csv"
  /\ Len(fn_args.records) = 2
  /\ \/ /\ fn_args.shape \in {"comma", "colon", "space", "bare"}
        /\ fn_args.records[1] = fn_args.records[2]
        /\ Len(fn_result) = 1
     \/ /\ fn_args.shape = "blank"
        /\ Written(fn_args.records, fn_args.shape) # <<>>
        /\ fn_result = <<>>

----------------------------------------------------------------------------
(* Claims about the writers of the published list, checked under SpecWrite *)

\* C24: for the same node list every writer stores the same bytes: the
\* nodes joined by line breaks, encoded once.
C24_OneEncodingDepth ==
  fn_name \in {"run", "simple_main", "upload_file"} =>
    /\ fn_result = StoredBytes(RunField(fn_args))
    /\ fn_result = Utf8Encode(create_base64(Join(fn_args, "\n")))

\* C24 witness: GitHubClient.upload_file and simple_main have each stored a
\* list of two nodes as the one encoding of its text
C24_Witness ==
  /\ fn_name \in {"simple_main", "upload_file"}
  /\ Len(fn_args) = 2
  /\ fn_result # <<>>
  /\ Utf8Decode(fn_result).ok
  /\ b64decode_text(Utf8Decode(fn_result).value) =
       Returned(Join(fn_args, "\n"))

----------------------------------------------------------------------------
(* Claims about the writes of one operation of GitHubClient, checked under
   SpecClient *)

\* C26: in one operation at most one write takes effect on a blob: of the
\* PUTs the operation issues for a path, also of those whose response was
\* lost, at most one replaces the content stored at the path.
C26_OneWritePerBlob ==
  \A i, j \in DOMAIN log :
    (/\ log[i].replaced
     /\ log[j].replaced
     /\ log[i].path = log[j].path) => i = j

\* the requests of the operation called, in the order of its attempts
Attempts == {i \in DOMAIN log : OwnRequest(i)}

\* the number of the attempt that issued request i, counting from 0
AttemptOf(i) == Cardinality({j \in Attempts : j < i})

\* the operation makes at most MAX_RETRIES attempts
BoundedAttempts == Cardinality(Attempts) <= MAX_RETRIES

\* a transient failure on attempt k is followed by a wait of 2^k seconds
\* while k < MAX_RETRIES - 1; after the last attempt the operation has
\* returned failure and has not waited
BacksOff ==
  \A i \in Attempts :
    LET k == AttemptOf(i)
        Waited == \E w \in DOMAIN waits : waits[w] = 2 ^ k
    IN log[i].status \in {"500", "timeout"} =>
         IF k < MAX_RETRIES - 1 THEN Waited
         ELSE ~Waited /\ pc = "returned" /\ ~result.ok

\* a successful response is the last of the operation, which has returned
\* its result
SuccessReturns ==
  \A i \in Attempts :
    log[i].status \in {"200", "201"} =>
      /\ i = Len(log)
      /\ pc = "returned"
      /\ result.ok

\* C27: every operation of GitHubClient makes at most MAX_RETRIES attempts,
\* waits 2^k seconds after a transient failure on attempt k that is not the
\* last, returns failure without a wait after the last, and returns its
\* result at once on a successful response.
C27_BoundedRetries == BoundedAttempts /\ BacksOff /\ SuccessReturns

----------------------------------------------------------------------------
(* The endpoints kept over a run, checked under SpecRun *)

\* the (host, port) keys of the raw node list that a stored file holds
StoredKeys(content) ==
  LET nodes == IF content # <<>> THEN decode_remote_nodes(content) ELSE <<>>
  IN {ExtractKey(nodes[i]) : i \in DOMAIN nodes} \ {NoKey}

\* the content that the PUT of request i replaced: the one whose token the
\* request sent
ReplacedBy(i) == log[i].sha.blob

\* C28: after a run that ends in success, with no other writer, every key of
\* the node list that a write of the run replaced is a key of the node list
\* stored at the end.
C28_NoEndpointRemoved ==
  (pc = "done" /\ exit_code = 0 /\ other_writes = 0) =>
    \A i \in DOMAIN log :
      (/\ log[i].method = "PUT"
       /\ log[i].path = OUTPUT_NODE_FILE
       /\ log[i].sha.known) =>
        StoredKeys(ReplacedBy(i))
          \subseteq StoredKeys(repo_files[OUTPUT_NODE_FILE].content)

----------------------------------------------------------------------------
(* The names of the entries of one document, checked under SpecRender *)

\* the nodes all have a (host, port) key, and no two have the same
DistinctKeys(nodes) ==
  /\ \A i \in DOMAIN nodes : ExtractKey(nodes[i]) # NoKey
  /\ \A i, j \in DOMAIN nodes :
       ExtractKey(nodes[i]) = ExtractKey(nodes[j]) => i = j

\* C30: in the document rendered from nodes with pairwise distinct
\* (host, port) keys no two entries of the top-level node list have the same
\* name: there are as many names as entries.
C30_EntryNamesDiffer ==
  (rendered /\ DistinctKeys(render_nodes)) =>
    Cardinality(EntryNames(yaml_content))
      = Cardinality(EntryLines(yaml_content))

====
